---- MODULE Spec2Model ----
(***************************************************************************)
(* The chunked, resumable log watcher of backend/bin/attestation_watcher.rs *)
(* (main, watch_auctions, process_block_range, the decoders, the sinks and *)
(* the cursor store), as a state machine.  One watcher process runs        *)
(* against a database (cursor row, auctions table, presale table) and a    *)
(* chain RPC node.  Every await of the code is a place where the process   *)
(* can be killed; a killed process restarts at main's timer loop.          *)
(***************************************************************************)
EXTENDS Integers, Sequences, FiniteSets, TLC

(***************************************************************************)
(* Program constants (backend/src/constants.rs).                           *)
(***************************************************************************)
AUCTION_WATCHER_START_BLOCK == 33200642
INITIAL_CHUNK_SIZE == 500
MIN_CHUNK_SIZE == 125
MAX_CHUNK_SIZE == 4000
REFRESH_LATEST_BLOCK_EVERY_N_ITERS == 10
\* the cap of the back-off sleep, attestation_watcher.rs line 147
MAX_SLEEP_SECS == 10

(***************************************************************************)
(* Bounds of the model.  The chain head takes the values                   *)
(* START - 1 + k * HeadStep for k in 0..MaxHeadSteps; a range attempt may  *)
(* fail only while fewer than MaxFailuresInRow failures are counted in a   *)
(* row, and only in the first MaxFailIters iterations of a call.           *)
(***************************************************************************)
HeadStep == 130
MaxHeadSteps == 4
MaxFailuresInRow == 6
MaxFailIters == 11

Min(a, b) == IF a <= b THEN a ELSE b
Max(a, b) == IF a >= b THEN a ELSE b

(***************************************************************************)
(* The chain: the logs the RPC node holds, in block-then-log-index order.  *)
(* topics0 is the event signature ("none": the log has no topics), ntopics *)
(* the length of topics, removed the reorg flag.  A nullable column or     *)
(* value is a sequence of length 0 or 1.  topics3 is the 32-byte word of   *)
(* topics[3], most significant byte first; address_topic is the 32-byte    *)
(* word of the indexed address (topics[2] of AuctionSettled, topics[1] of  *)
(* PresaleClaimed), the address in its low-order 20 bytes.                 *)
(***************************************************************************)
\* the 32-byte big-endian word of a value below 256
Word32(n) == [i \in 1..32 |-> IF i = 32 THEN n ELSE 0]

Log(id, block, contract, topics0, ntopics, removed, cast_hash, creator_fid, address, token_id) ==
    [id |-> id, block |-> block, contract |-> contract, topics0 |-> topics0,
     ntopics |-> ntopics, removed |-> removed,
     transaction_hash |-> id, log_index |-> id,
     cast_hash |-> cast_hash, topics3 |-> Word32(creator_fid),
     address_topic |-> Word32(address), token_id |-> token_id]

ChainLogs ==
    << Log(10, AUCTION_WATCHER_START_BLOCK + 5,   "auction", "none",           0, FALSE, "h2", 0, 221, "t0"),
       Log(12, AUCTION_WATCHER_START_BLOCK + 5,   "presale", "Transfer",       3, FALSE, "h0", 0, 221, "t2"),
       Log(1,  AUCTION_WATCHER_START_BLOCK + 10,  "auction", "AuctionStarted", 4, FALSE, "h1", 7, 170, "t0"),
       Log(2,  AUCTION_WATCHER_START_BLOCK + 10,  "presale", "PresaleClaimed", 3, FALSE, "h0", 0, 187, "t1"),
       Log(3,  AUCTION_WATCHER_START_BLOCK + 130, "auction", "AuctionSettled", 4, FALSE, "h1", 9, 204, "t0"),
       Log(4,  AUCTION_WATCHER_START_BLOCK + 130, "auction", "AuctionStarted", 4, TRUE,  "h2", 5, 170, "t0"),
       Log(8,  AUCTION_WATCHER_START_BLOCK + 130, "auction", "AuctionSettled", 4, TRUE,  "h3", 0, 238, "t0"),
       Log(9,  AUCTION_WATCHER_START_BLOCK + 130, "presale", "PresaleClaimed", 3, TRUE,  "h0", 0, 238, "t3"),
       Log(5,  AUCTION_WATCHER_START_BLOCK + 300, "auction", "AuctionSettled", 2, FALSE, "h2", 0, 221, "t0"),
       Log(6,  AUCTION_WATCHER_START_BLOCK + 300, "auction", "Transfer",       3, FALSE, "h2", 0, 221, "t0"),
       Log(11, AUCTION_WATCHER_START_BLOCK + 300, "auction", "AuctionStarted", 3, FALSE, "h2", 0, 221, "t0"),
       Log(7,  AUCTION_WATCHER_START_BLOCK + 300, "presale", "none",           0, FALSE, "h0", 0, 221, "t2"),
       Log(13, AUCTION_WATCHER_START_BLOCK + 300, "presale", "PresaleClaimed", 2, FALSE, "h0", 0, 221, "t2") >>

CastHashes == {ChainLogs[i].cast_hash : i \in 1..Len(ChainLogs)}

VARIABLES
    \* ---- the database
    row,             \* watcher_state row of AUCTION_WATCHER_ID
    auctions,        \* auctions table, keyed by cast_hash
    sold,            \* presale NFTs marked as sold (token ids)
    applied,         \* history: ids of the logs whose sink write was executed
    \* ---- the chain
    chainHead,       \* the block number eth_blockNumber answers
    \* ---- the watcher process
    pc,              \* the await the process is at
    from_block, chunk_size, iter_count, failures_in_row, seen_events,
    latest_block, current_latest, to_block,
    auction_events, presale_events,
    idx,             \* position of the for loop over the fetched events
    delay,           \* seconds of the sleep in progress (pc = "sleep")
    \* ---- a second watcher process with the same AUCTION_WATCHER_ID
    other,           \* its position and locals; "off" when none was ever started
    \* ---- the attestation store and the request handler that writes it
    together_attestations,  \* rows (address_1, address_2, attestation_timestamp)
    together_counts,        \* address -> total_count, a nullable value per address
    handler,         \* submit_attestation: its position, request and response
    \* ---- utils/token_conversion.rs
    conversion,      \* a token id, its cast hash and the token id read back
    \* ---- the clock of the server and of the database (seconds)
    now,
    \* ---- handlers/rpc.rs and services/alchemy.rs
    rpc_requests,    \* RPC_RATE_LIMITER.requests: client ip -> instants
    alchemy_requests,\* AlchemyService.rate_limiter.requests: owner -> instants
    admitted,        \* history: per limiter and key, the instants of the calls that returned true
    proxy,           \* proxy_rpc: its position, request and response
    \* ---- pending and optimistic connections
    pending_connections,    \* rows (id, from_user_id, to_user_id, expires_at)
    pending_ids,     \* how many ids the table pending_connections has given out
    optimistic_connections, \* rows (id, user_id_1, user_id_2, processed), oldest first
    creators,        \* the create_pending_connection requests in progress
    checker,         \* run_connection_checker: its position and locals
    submitted,       \* the checker's log: per optimistic connection created, the
                     \* two pending rows of its match and what the submission came to
    \* ---- services/contract.rs
    tx               \* submit_together_transaction: its position, counters and result

vars == <<row, auctions, sold, applied, chainHead, pc, from_block, chunk_size,
          iter_count, failures_in_row, seen_events, latest_block, current_latest,
          to_block, auction_events, presale_events, idx, delay, other,
          together_attestations, together_counts, handler, conversion,
          now, rpc_requests, alchemy_requests, admitted, proxy,
          pending_connections, pending_ids, optimistic_connections, creators,
          checker, submitted, tx>>

db == <<row, auctions, sold, applied>>
business == <<auctions, sold, applied>>
fetched == <<auction_events, presale_events, idx>>
together == <<together_attestations, together_counts, handler>>
\* what no step of this process changes
rate_limits == <<rpc_requests, alchemy_requests, admitted, proxy>>
connections == <<pending_connections, pending_ids, optimistic_connections,
                 creators, checker, submitted>>
services == <<now, rate_limits, connections, tx>>
env == <<chainHead, other, together, conversion, services>>

NoRow == [present |-> FALSE, last_processed_block |-> 0, chunk_size |-> 0]
Row(b, c) == [present |-> TRUE, last_processed_block |-> b, chunk_size |-> c]
OtherOff == [pc |-> "off", from_block |-> 0, chunk_size |-> 0, latest_block |-> 0]
NoAuction == [present |-> FALSE, creator_fid |-> <<>>, settled |-> FALSE, winner_address |-> <<>>]


(***************************************************************************)
(* Cursor store.                                                           *)
(***************************************************************************)
\* A save that keeps the stored chunk_size and writes the block only.
save_watcher_state_block_only(last_processed_block, chunk) ==
    [present |-> TRUE, last_processed_block |-> last_processed_block,
     chunk_size |-> row.chunk_size]

\* save_watcher_state: one upsert that overwrites both columns.
\* A save that keeps a stored cursor that is further ahead.
save_watcher_state_if_ahead(last_processed_block, chunk) ==
    IF row.present /\ row.last_processed_block > last_processed_block
    THEN row
    ELSE Row(last_processed_block, chunk)
save_watcher_state(last_processed_block, chunk) == Row(last_processed_block, chunk)

(***************************************************************************)
(* Range planner arithmetic (watch_auctions).                              *)
(***************************************************************************)
\* Resuming at the saved block itself.
ResumeFromSame(last_processed_block) == last_processed_block

\* line 89: the first block of a call
ResumeFrom(last_processed_block) == last_processed_block + 1

\* Saving the next block to read.
CommittedBlockOffByOne(from) == from

\* line 139: the block saved as last_processed_block
\* A cursor write one block short of the range.
CommittedBlockBehind(from) == from - 2
CommittedBlock(from) == from - 1

\* A window that does not stop at the head.
ToBlockPastHead(from, chunk, head) == from + chunk - 1
\* A window of chunk + 1 blocks.
ToBlockOffByOne(from, chunk, head) == Min(from + chunk, head)

\* line 121
ToBlock(from, chunk, head) == Min(from + chunk - 1, head)

\* Doubling without the maximum.
GrowChunkNoCap(chunk) == chunk * 2

\* lines 132-134: the chunk size after a successful range
GrowChunk(chunk) ==
    IF chunk < MAX_CHUNK_SIZE THEN Min(chunk * 2, MAX_CHUNK_SIZE) ELSE chunk

\* Halving without the minimum.
ShrinkChunkNoFloor(chunk) == chunk \div 2

\* lines 146-151: the chunk size after a failed range
ShrinkChunk(chunk) ==
    IF chunk <= MIN_CHUNK_SIZE THEN chunk ELSE Max(chunk \div 2, MIN_CHUNK_SIZE)

\* lines 146-147: whether the failure branch sleeps, and for how long
SleepsOnFailure(chunk) == chunk <= MIN_CHUNK_SIZE
SleepSecsUncapped(failures) == 2 * failures
SleepSecs(failures) == Min(2 * failures, MAX_SLEEP_SECS)

\* line 102
\* A refresh that is also due whenever the window reaches the known head.
RefreshDueOrNearHead(iter) ==
    \/ iter % REFRESH_LATEST_BLOCK_EVERY_N_ITERS = 0
    \/ from_block + chunk_size - 1 >= latest_block
RefreshDue(iter) == iter % REFRESH_LATEST_BLOCK_EVERY_N_ITERS = 0

(***************************************************************************)
(* Log fetcher: eth_getLogs for one contract address and an inclusive      *)
(* block range, in chain order.  The node is not assumed to honour the     *)
(* topic filter: process_block_range has its own branches for logs without *)
(* topics and for unknown signatures.                                      *)
(***************************************************************************)
InRange(l, contract, from, to) ==
    l.contract = contract /\ from <= l.block /\ l.block <= to

\* A fetch that answers with the newest log first.
FetchLogsNewestFirst(contract, from, to) ==
    LET q == SelectSeq(ChainLogs, LAMBDA l : InRange(l, contract, from, to))
    IN  [i \in 1..Len(q) |-> q[Len(q) + 1 - i]]
FetchLogs(contract, from, to) ==
    SelectSeq(ChainLogs, LAMBDA l : InRange(l, contract, from, to))

(***************************************************************************)
(* Line 404: creator_fid = U256::from_be_bytes(topics[3].0).to::<u64>()    *)
(* as i64.  A natural number is the sequence of its base-256 digits, most  *)
(* significant first, without leading zeros; an i64 is a sign and the      *)
(* digits of its magnitude.                                                *)
(***************************************************************************)
RECURSIVE StripZeros(_)
StripZeros(d) == IF d # <<>> /\ d[1] = 0 THEN StripZeros(Tail(d)) ELSE d

\* U256::from_be_bytes
U256_from_be_bytes(bytes) == StripZeros(bytes)

\* .to::<u64>() returns (it panics when the value does not fit 64 bits)
FitsU64(n) == Len(n) <= 8

\* the 8 bytes of a u64
U64Bytes(n) == [i \in 1..8 |-> IF i <= 8 - Len(n) THEN 0 ELSE n[i - (8 - Len(n))]]

\* d + 1 on a fixed number of bytes
RECURSIVE Increment(_)
Increment(d) ==
    IF d = <<>> THEN <<>>
    ELSE IF d[Len(d)] < 255
         THEN [d EXCEPT ![Len(d)] = @ + 1]
         ELSE Increment(SubSeq(d, 1, Len(d) - 1)) \o <<0>>

\* `as i64`: the same 64 bits read as two's complement
as_i64(n) ==
    LET bits == U64Bytes(n) IN
    IF bits[1] >= 128
    THEN [negative |-> TRUE,
          magnitude |-> StripZeros(Increment([i \in 1..8 |-> 255 - bits[i]]))]
    ELSE [negative |-> FALSE, magnitude |-> n]

\* the creator_fid of the decoded event
creator_fid(l) == as_i64(U256_from_be_bytes(l.topics3))

(***************************************************************************)
(* Decoding of an indexed address: the bytes of the topic from offset 12   *)
(* on, hex-encoded in lowercase behind "0x".                               *)
(***************************************************************************)
HexDigits == <<"0", "1", "2", "3", "4", "5", "6", "7",
               "8", "9", "a", "b", "c", "d", "e", "f">>

\* hex::encode: two lowercase digits for each byte, high nibble first
RECURSIVE hex_encode(_)
hex_encode(bytes) ==
    IF bytes = <<>> THEN ""
    ELSE HexDigits[(bytes[1] \div 16) + 1] \o HexDigits[(bytes[1] % 16) + 1]
            \o hex_encode(Tail(bytes))

\* A slice that starts one byte early.
get_one_byte_early(bytes, start) ==
    IF start - 1 <= Len(bytes) THEN <<SubSeq(bytes, start, Len(bytes))>> ELSE <<>>
\* slice.get(start..): the bytes from the zero-based offset start on, None
\* when start is past the end
get(bytes, start) ==
    IF start <= Len(bytes) THEN <<SubSeq(bytes, start + 1, Len(bytes))>> ELSE <<>>

\* the &[0u8; 20] of the unwrap_or
ZeroAddress == [i \in 1..20 |-> 0]
unwrap_or_zero_address(opt) == IF opt = <<>> THEN ZeroAddress ELSE opt[1]

\* the winner_address of the decoded AuctionSettled event (topics[2])
winner_address(l) == "0x" \o hex_encode(unwrap_or_zero_address(get(l.address_topic, 12)))
\* the buyer of the decoded PresaleClaimed event (topics[1])
buyer(l) == "0x" \o hex_encode(unwrap_or_zero_address(get(l.address_topic, 12)))

(***************************************************************************)
(* Event decoders: TRUE when the decoder gets past its `return None`s.     *)
(***************************************************************************)
\* A decoder that does not look at the removed flag.
decode_auction_started_log_keeping_removed(l) == l.ntopics >= 4
decode_auction_started_log(l) == ~l.removed /\ l.ntopics >= 4
\* line 404 panics
decode_auction_started_panics(l) ==
    decode_auction_started_log(l) /\ ~FitsU64(U256_from_be_bytes(l.topics3))
\* A decoder that is content with two topics.
decode_auction_settled_log_two_topics(l) == ~l.removed /\ l.ntopics >= 2
decode_auction_settled_log(l) == ~l.removed /\ l.ntopics >= 4
decode_presale_claimed_log(l) == ~l.removed /\ l.ntopics >= 3

\* (transaction_hash, log_index), lines 199 and 274
EventKey(l) == <<l.transaction_hash, l.log_index>>

\* The logs process_block_range hands to a sink operation when it meets them:
\* a known signature for the loop that handles the contract, and a decoder
\* that returns Some.
Persistable(l) ==
    \/ /\ l.contract = "auction" /\ l.topics0 = "AuctionStarted"
       /\ decode_auction_started_log(l) /\ ~decode_auction_started_panics(l)
    \/ l.contract = "auction" /\ l.topics0 = "AuctionSettled" /\ decode_auction_settled_log(l)
    \/ l.contract = "presale" /\ l.topics0 = "PresaleClaimed" /\ decode_presale_claimed_log(l)

(***************************************************************************)
(* Event sinks: the table after the statement of the sink has run.         *)
(***************************************************************************)
\* An upsert that writes every column of the VALUES list on conflict.
process_auction_started_overwriting(tbl, l) ==
    [tbl EXCEPT ![l.cast_hash] =
        [present |-> TRUE, creator_fid |-> <<creator_fid(l)>>,
         settled |-> FALSE, winner_address |-> <<>>]]
\* INSERT ... ON CONFLICT (cast_hash) DO UPDATE SET creator_fid
process_auction_started(tbl, l) ==
    [tbl EXCEPT ![l.cast_hash] =
        IF @.present
        THEN [@ EXCEPT !.creator_fid = <<creator_fid(l)>>]
        ELSE [present |-> TRUE, creator_fid |-> <<creator_fid(l)>>,
              settled |-> FALSE, winner_address |-> <<>>]]

\* The UPDATE alone, without the orphan INSERT.
process_auction_settled_update_only(tbl, l) ==
    [tbl EXCEPT ![l.cast_hash] =
        IF @.present
        THEN [@ EXCEPT !.settled = TRUE, !.winner_address = <<winner_address(l)>>]
        ELSE @]
\* UPDATE ... WHERE cast_hash; when no row matched, the orphan INSERT
process_auction_settled(tbl, l) ==
    [tbl EXCEPT ![l.cast_hash] =
        IF @.present
        THEN [@ EXCEPT !.settled = TRUE, !.winner_address = <<winner_address(l)>>]
        ELSE [present |-> TRUE, creator_fid |-> <<>>,
              settled |-> TRUE, winner_address |-> <<winner_address(l)>>]]

\* presale_nfts::mark_nft_sold, called by process_presale_claimed
mark_nft_sold(s, l) == s \cup {l.token_id}

(***************************************************************************)
(* Strings of the attestation store.  An address is the string of the      *)
(* request, in the letter case the client sent it.  AsciiOrder lists the   *)
(* characters of an address in the order of their bytes.                   *)
(***************************************************************************)
AsciiOrder == "0123456789ABCDEFabcdefx"
Ord(c) == CHOOSE i \in 1..Len(AsciiOrder) : SubSeq(AsciiOrder, i, i) = c

\* char::to_lowercase on the characters of an address
lower_char(c) ==
    IF Ord(c) \in 11..16 THEN SubSeq(AsciiOrder, Ord(c) + 6, Ord(c) + 6) ELSE c

\* str::to_lowercase, and LOWER() of the queries
RECURSIVE to_lowercase(_)
to_lowercase(s) ==
    IF s = "" THEN ""
    ELSE lower_char(SubSeq(s, 1, 1)) \o to_lowercase(SubSeq(s, 2, Len(s)))

\* String's <=: lexicographic on the bytes
RECURSIVE StringLeq(_, _)
StringLeq(s, t) ==
    IF s = "" THEN TRUE
    ELSE IF t = "" THEN FALSE
    ELSE LET a == Ord(SubSeq(s, 1, 1))
             b == Ord(SubSeq(t, 1, 1))
         IN  IF a < b THEN TRUE
             ELSE IF a > b THEN FALSE
             ELSE StringLeq(SubSeq(s, 2, Len(s)), SubSeq(t, 2, Len(t)))

\* the addresses of the requests: one address in two letter cases, and a
\* second address that sorts after it in lowercase and between the two as sent
Address(tail) == "0x00000000000000000000000000000000000000" \o tail
Addresses == {Address("0a"), Address("0A"), Address("0B")}
Timestamps == {1, 2}

\* to_lowercase and LOWER() on the addresses of the requests, computed once
Lowercase == [a \in Addresses |-> to_lowercase(a)]
LOWER(s) == Lowercase[s]

(***************************************************************************)
(* db/attestations.rs.                                                     *)
(***************************************************************************)
\* lines 15-19 and 168-172: (addr1, addr2)
addr1_addr2(address_1, address_2) ==
    IF StringLeq(LOWER(address_1), LOWER(address_2))
    THEN <<address_1, address_2>> ELSE <<address_2, address_1>>
\* (addr1, addr2) of every pair of addresses, computed once
Ordered == [a \in Addresses, b \in Addresses |-> addr1_addr2(a, b)]

\* a row of together_attestations, by the columns of its unique constraint
Attestation(address_1, address_2, attestation_timestamp) ==
    [address_1 |-> address_1, address_2 |-> address_2,
     attestation_timestamp |-> attestation_timestamp]

\* An INSERT that returns the row also when it conflicts.
RETURNING_also_on_conflict(rows, r) == <<r>>
\* INSERT ... ON CONFLICT (address_1, address_2, attestation_timestamp)
\* DO NOTHING RETURNING *: the rows the statement returns
RETURNING(rows, r) == IF r \in rows THEN <<>> ELSE <<r>>

\* SELECT COUNT(*) ... WHERE LOWER(address_1) = LOWER($1) OR LOWER(address_2) = LOWER($1)
COUNT(rows, address) ==
    Cardinality({r \in rows : \/ LOWER(r.address_1) = LOWER(address)
                              \/ LOWER(r.address_2) = LOWER(address)})

\* A counter that adds one in place of counting the rows.
update_address_count_incrementing(counts, rows, address) ==
    [counts EXCEPT ![address] = IF @ = <<>> THEN <<1>> ELSE <<@[1] + 1>>]
\* INSERT INTO together_counts ... ON CONFLICT (address) DO UPDATE SET total_count
update_address_count(counts, rows, address) ==
    [counts EXCEPT ![address] = <<COUNT(rows, address)>>]

\* get_together_count: the values it can return, the first row of
\* SELECT total_count ... WHERE LOWER(address) = LOWER($1), or 0
get_together_count(counts, address) ==
    LET matching == {k \in DOMAIN counts :
                        counts[k] # <<>> /\ LOWER(k) = LOWER(address)}
    IN  IF matching = {} THEN {0} ELSE {counts[k][1] : k \in matching}

\* check_together: the values it can return, the first row of the SELECT
\* ordered by attestation_timestamp DESC, or None
check_together(rows, address_1, address_2) ==
    LET o == Ordered[address_1, address_2]
        matching == {r \in rows :
                        /\ LOWER(r.address_1) = LOWER(o[1])
                        /\ LOWER(r.address_2) = LOWER(o[2])}
        latest == {r \in matching : \A q \in matching :
                        q.attestation_timestamp <= r.attestation_timestamp}
    IN  IF matching = {} THEN {<<>>} ELSE {<<r>> : r \in latest}

HandlerIdle == [pc |-> "idle", addr1 |-> "", addr2 |-> "", timestamp |-> 0,
                response |-> "none"]
TogetherInit ==
    /\ together_attestations = {}
    /\ together_counts = [a \in Addresses |-> <<>>]
    /\ handler = HandlerIdle

(***************************************************************************)
(* utils/token_conversion.rs.  A U256 is its 32 bytes, most significant    *)
(* first; a token id is handed over as its decimal string.                 *)
(***************************************************************************)
DecimalDigits == <<"0", "1", "2", "3", "4", "5", "6", "7", "8", "9">>

\* the decimal digits taken in or put out in one step, and their weight
LimbDigits == 6
Limb == 1000000

\* bytes * mul + add, on the width of bytes
RECURSIVE MulAdd(_, _, _)
MulAdd(bytes, mul, add) ==
    IF bytes = <<>> THEN <<>>
    ELSE LET n == Len(bytes)
             v == bytes[n] * mul + add
         IN  MulAdd(SubSeq(bytes, 1, n - 1), mul, v \div 256) \o <<v % 256>>

\* the number a short run of decimal digits writes
RECURSIVE DigitsValue(_, _)
DigitsValue(s, acc) ==
    IF s = "" THEN acc
    ELSE DigitsValue(SubSeq(s, 2, Len(s)), acc * 10 + Ord(SubSeq(s, 1, 1)) - 1)

RECURSIVE Pow10(_)
Pow10(n) == IF n = 0 THEN 1 ELSE 10 * Pow10(n - 1)

\* token_id.parse::<U256>() of a decimal string, line 10: the digits are
\* taken in from the left, a limb at a time (each intermediate value is
\* computed once, as the element of a singleton)
RECURSIVE parse_U256(_, _)
parse_U256(s, acc) ==
    IF s = "" THEN acc
    ELSE LET k == IF Len(s) % LimbDigits = 0 THEN LimbDigits
                  ELSE Len(s) % LimbDigits
         IN  CHOOSE v \in {parse_U256(SubSeq(s, k + 1, Len(s)), next) :
                 next \in {MulAdd(acc, Pow10(k),
                                  DigitsValue(SubSeq(s, 1, k), 0))}} : TRUE

\* A slice that takes the 20 bytes one place higher.
bytes20_one_byte_early(bytes32) == SubSeq(bytes32, 12, 31)
\* &bytes32[12..32], line 19
bytes20(bytes32) == SubSeq(bytes32, 13, 32)

\* the places of s that hold a letter
LetterPlaces(s) == {i \in 1..Len(s) : Ord(SubSeq(s, i, i)) > 10}

\* Address::to_string(): "0x" and the hex digits of the address with the
\* letters at the places of upper in upper case (the checksum decides which)
RECURSIVE to_string(_, _, _)
to_string(hex, upper, i) ==
    IF i > Len(hex) THEN ""
    ELSE LET c == SubSeq(hex, i, i) IN
         (IF i \in upper THEN SubSeq(AsciiOrder, Ord(c) - 6, Ord(c) - 6) ELSE c)
            \o to_string(hex, upper, i + 1)

\* token_id_u256_to_cast_hash, lines 17-27: the strings it can return
token_id_u256_to_cast_hash(token_id) ==
    LET hex == hex_encode(bytes20(token_id)) IN
    {to_lowercase("0x" \o to_string(hex, upper, 1)) : upper \in SUBSET LetterPlaces(hex)}

\* the value of a hex digit in either case
HexValue(c) ==
    LET o == Ord(c) IN IF o <= 16 THEN o - 1 ELSE o - 7

\* cast_hash.parse::<Address>(), line 32: None unless the string is 40 hex
\* digits, with or without "0x"
parse_Address(s) ==
    LET digits == IF Len(s) >= 2 /\ SubSeq(s, 1, 2) = "0x" THEN SubSeq(s, 3, Len(s)) ELSE s
    IN  IF Len(digits) # 40 \/ \E i \in 1..Len(digits) : Ord(SubSeq(digits, i, i)) > 22
        THEN <<>>
        ELSE <<[i \in 1..20 |-> 16 * HexValue(SubSeq(digits, 2 * i - 1, 2 * i - 1))
                                    + HexValue(SubSeq(digits, 2 * i, 2 * i))]>>

\* cast_hash_to_token_id, lines 30-41: Some(U256) or None for the Err
cast_hash_to_token_id(cast_hash) ==
    LET address == parse_Address(cast_hash) IN
    IF address = <<>> THEN <<>>
    ELSE <<[i \in 1..32 |-> IF i <= 12 THEN 0 ELSE address[1][i - 12]]>>

\* the decimal string of a U256: the token ids that callers hand over
RECURSIVE LongDiv(_, _, _)
LongDiv(bytes, by, rem) ==
    IF bytes = <<>> THEN [q |-> <<>>, r |-> rem]
    ELSE LET cur == rem * 256 + bytes[1]
             rest == LongDiv(Tail(bytes), by, cur % by)
         IN  [q |-> <<cur \div by>> \o rest.q, r |-> rest.r]

\* n written on exactly places decimal digits
RECURSIVE LimbString(_, _)
LimbString(n, places) ==
    IF places = 0 THEN ""
    ELSE LimbString(n \div 10, places - 1) \o DecimalDigits[(n % 10) + 1]

RECURSIVE Limbs(_)
Limbs(bytes) ==
    IF \A i \in 1..Len(bytes) : bytes[i] = 0 THEN ""
    ELSE CHOOSE s \in {Limbs(d.q) \o LimbString(d.r, LimbDigits) :
                        d \in {LongDiv(bytes, Limb, 0)}} : TRUE

RECURSIVE StripLeadingZeros(_)
StripLeadingZeros(s) ==
    IF Len(s) > 1 /\ SubSeq(s, 1, 1) = "0"
    THEN StripLeadingZeros(SubSeq(s, 2, Len(s))) ELSE s

to_decimal(bytes) ==
    CHOOSE r \in {IF s = "" THEN "0" ELSE StripLeadingZeros(s) :
                    s \in {Limbs(bytes)}} : TRUE

\* the token ids converted: the bytes of TokenBytes at the top byte, at the
\* lowest byte above 160 bits, and at the highest and lowest byte below
TokenBytes == {0, 1, 171, 255}
TokenIds ==
    {[i \in 1..32 |-> CASE i = 1 -> a [] i = 12 -> b [] i = 13 -> c [] i = 32 -> d
                        [] OTHER -> 0] :
        a \in TokenBytes, b \in TokenBytes, c \in TokenBytes, d \in TokenBytes}

NoConversion == [pc |-> "none", expected |-> <<>>, token_id |-> "", cast_hash |-> "",
                 recovered |-> <<>>]

(***************************************************************************)
(* handlers/rpc.rs and services/alchemy.rs: the two rate limiters and the  *)
(* JSON-RPC proxy.  A serde_json::Value is a record of its kind, its       *)
(* string, its array items and its object members (key, value pairs).      *)
(***************************************************************************)
JsonScalar(kind) == [kind |-> kind, str |-> "", items |-> <<>>, members |-> {}]
JsonString(s) == [kind |-> "string", str |-> s, items |-> <<>>, members |-> {}]
JsonArray(items) == [kind |-> "array", str |-> "", items |-> items, members |-> {}]
JsonObject(members) == [kind |-> "object", str |-> "", items |-> <<>>, members |-> members]

\* obj.contains_key(key)
contains_key(obj, key) == \E m \in obj.members : m[1] = key
\* obj.get(key).and_then(|v| v.as_str()): Some(string) or None
get_as_str(obj, key) ==
    IF \E m \in obj.members : m[1] = key /\ m[2].kind = "string"
    THEN <<(CHOOSE m \in obj.members : m[1] = key)[2].str>>
    ELSE <<>>

\* A validation that lets the empty batch through.
RECURSIVE is_valid_jsonrpc_request_empty_batch(_)
is_valid_jsonrpc_request_empty_batch(body) ==
    IF body.kind = "object"
    THEN /\ contains_key(body, "jsonrpc")
         /\ contains_key(body, "method")
         /\ contains_key(body, "id")
         /\ get_as_str(body, "jsonrpc") = <<"2.0">>
         /\ get_as_str(body, "method") # <<>>
    ELSE IF body.kind = "array"
    THEN \A i \in 1..Len(body.items) :
             is_valid_jsonrpc_request_empty_batch(body.items[i])
    ELSE FALSE

\* is_valid_jsonrpc_request, rpc.rs lines 209-224
RECURSIVE is_valid_jsonrpc_request(_)
is_valid_jsonrpc_request(body) ==
    IF body.kind = "object"
    THEN /\ contains_key(body, "jsonrpc")
         /\ contains_key(body, "method")
         /\ contains_key(body, "id")
         /\ get_as_str(body, "jsonrpc") = <<"2.0">>
         /\ get_as_str(body, "method") # <<>>
    ELSE IF body.kind = "array"
    THEN /\ body.items # <<>>
         /\ \A i \in 1..Len(body.items) : is_valid_jsonrpc_request(body.items[i])
    ELSE FALSE

\* RpcRateLimiter::new(300), rpc.rs line 52
RPC_RATE_LIMIT == 300
\* Duration::from_secs(60), rpc.rs line 32
RPC_WINDOW_SECONDS == 60
\* constants.rs lines 86 and 89
ALCHEMY_RATE_LIMIT_PER_MINUTE == 10
RATE_LIMIT_WINDOW_SECONDS == 60

\* A limiter that records the call it denies.
can_make_request_recording_denials(requests, max_requests_per_minute, window, key, at) ==
    LET minute_ago == at - window
        retained == SelectSeq(requests[key], LAMBDA time : time > minute_ago)
    IN  [requests |-> [requests EXCEPT ![key] = Append(retained, at)],
         ok |-> Len(retained) < max_requests_per_minute]

\* can_make_request, rpc.rs lines 30-45 and alchemy.rs lines 59-74: the map
\* after the call and the answer.  A key the map does not hold is the key of
\* an empty Vec (entry().or_insert_with(Vec::new)).
can_make_request(requests, max_requests_per_minute, window, key, at) ==
    LET minute_ago == at - window
        retained == SelectSeq(requests[key], LAMBDA time : time > minute_ago)
    IN  IF Len(retained) < max_requests_per_minute
        THEN [requests |-> [requests EXCEPT ![key] = Append(retained, at)],
              ok |-> TRUE]
        ELSE [requests |-> [requests EXCEPT ![key] = retained], ok |-> FALSE]

\* the keys of the limiters: client ips (get_client_ip falls back to
\* "unknown") and owner addresses
ClientIps == {"203.0.113.7", "unknown"}
Owners == {"0x0a", "0x0b"}

\* the network parameter: None or Some(name)
Networks == {<<>>, <<"base">>, <<"ethereum">>, <<"polygon">>, <<"solana">>, <<"Base">>}
\* A match that has a url for every network.
rpc_url_chosen_for_any(network) == TRUE
\* match params.network.as_deref(), rpc.rs lines 87-118: the upstream url
\* is chosen (TRUE) or the request is refused
rpc_url_chosen(network) ==
    network \in {<<"base">>, <<>>, <<"ethereum">>, <<"polygon">>}

\* the bodies sent to the proxy
ValidRequest ==
    JsonObject({<<"jsonrpc", JsonString("2.0")>>, <<"method", JsonString("eth_call")>>,
                <<"id", JsonScalar("number")>>})
Objects ==
    {JsonObject(j \cup m \cup i) :
        j \in {{}} \cup {{<<"jsonrpc", v>>} :
                 v \in {JsonString("2.0"), JsonString("1.0"), JsonScalar("number")}},
        m \in {{}} \cup {{<<"method", v>>} :
                 v \in {JsonString("eth_call"), JsonScalar("null")}},
        i \in {{}} \cup {{<<"id", v>>} :
                 v \in {JsonScalar("number"), JsonScalar("null")}}}
ProxiedBodies ==
    {ValidRequest, JsonObject({<<"jsonrpc", JsonString("2.0")>>}), JsonArray(<<>>),
     JsonArray(<<ValidRequest, ValidRequest>>)}
BatchItems ==
    {ValidRequest, JsonObject({<<"jsonrpc", JsonString("2.0")>>}), JsonString("2.0"),
     JsonArray(<<ValidRequest>>), JsonArray(<<>>)}
Bodies ==
    {JsonScalar("null"), JsonScalar("bool"), JsonScalar("number"), JsonString("2.0")}
    \cup Objects
    \cup {JsonArray(<<>>)}
    \cup {JsonArray(<<a>>) : a \in BatchItems}
    \cup {JsonArray(<<a, b>>) : a \in BatchItems, b \in BatchItems}

NoProxy == [pc |-> "none", client_ip |-> "", network |-> <<>>,
            body |-> JsonScalar("null"), status |-> 0, forwarded |-> FALSE]
NoLimiter == <<>>
Limiter(keys) == [k \in keys |-> <<>>]
NoAdmitted == [rpc |-> Limiter(ClientIps), alchemy |-> Limiter(Owners)]
RateLimitsInit ==
    /\ rpc_requests = NoLimiter
    /\ alchemy_requests = NoLimiter
    /\ admitted = NoAdmitted
    /\ proxy = NoProxy

(***************************************************************************)
(* Pending and optimistic connections: db/users.rs, the handler            *)
(* create_pending_connection and bin/connection_checker.rs.                *)
(***************************************************************************)
Handlers == {1, 2}
\* the rows of the table users, and the ids a request may name
Users == {1, 2}
\* the requests: from_user_id of the path and to_user_id of the body.  User 3
\* is not in the table
Requests == {<<1, 2>>, <<2, 1>>, <<1, 1>>, <<1, 3>>, <<3, 3>>}
\* the lifetime the table gives a pending connection (its column default)
PendingLifetime == 30
\* the optimistic connections of users 1 and 2 left by earlier matches
PreloadedOptimistic == 48
MaxPendingIds == 2

Smaller(a, b) == IF a < b THEN a ELSE b
Larger(a, b) == IF a < b THEN b ELSE a

\* users.rs lines 23-37: Some(user) or None
get_user_by_id(user_id) == user_id \in Users

\* users.rs lines 64-79: a plain INSERT, the table gives the id and expires_at
create_pending_connection(pending, id, from_user_id, to_user_id, at) ==
    pending \cup {[id |-> id, from_user_id |-> from_user_id,
                   to_user_id |-> to_user_id, expires_at |-> at + PendingLifetime]}

\* users.rs lines 81-97: the unexpired rows of the ordered pair; fetch_optional
\* makes Some of them when there is one
get_pending_connection(pending, from_user_id, to_user_id, at) ==
    {p \in pending : /\ p.from_user_id = from_user_id
                     /\ p.to_user_id = to_user_id
                     /\ p.expires_at > at}

\* users.rs lines 99-163: the join of the table with itself and with users
find_pending_connection_matches(pending, at) ==
    {[pending_1 |-> pp[1], pending_2 |-> pp[2]] :
        pp \in {qq \in pending \X pending :
                  /\ qq[1].from_user_id = qq[2].to_user_id
                  /\ qq[1].to_user_id = qq[2].from_user_id
                  /\ qq[1].from_user_id \in Users
                  /\ qq[1].to_user_id \in Users
                  /\ qq[1].expires_at > at
                  /\ qq[2].expires_at > at
                  /\ qq[1].from_user_id < qq[1].to_user_id}}

\* users.rs lines 180-191
delete_expired_pending_connections(pending, at) ==
    {p \in pending : ~(p.expires_at <= at)}

\* users.rs lines 304-316
delete_pending_connection_by_id(pending, connection_id) ==
    {p \in pending : p.id # connection_id}

\* users.rs lines 194-219: the smaller id first
create_optimistic_connection(optimistic, user_id_1, user_id_2) ==
    Append(optimistic, [id |-> Len(optimistic) + 1,
                        user_id_1 |-> Smaller(user_id_1, user_id_2),
                        user_id_2 |-> Larger(user_id_1, user_id_2),
                        processed |-> FALSE])

\* users.rs lines 282-302
count_unprocessed_optimistic_connections(optimistic, user_id_1, user_id_2) ==
    Cardinality({i \in DOMAIN optimistic :
                   /\ optimistic[i].user_id_1 = Smaller(user_id_1, user_id_2)
                   /\ optimistic[i].user_id_2 = Larger(user_id_1, user_id_2)
                   /\ optimistic[i].processed = FALSE})

\* connection_checker.rs line 111: too many unprocessed optimistic connections
TooManyUnprocessed == 50
too_many_off_by_one(unprocessed_count) == unprocessed_count > TooManyUnprocessed
too_many(unprocessed_count) == unprocessed_count >= TooManyUnprocessed

NoCreator == [pc |-> "idle", from_user_id |-> 0, to_user_id |-> 0, status |-> 0]
NoMatch == [pending_1 |-> 0, pending_2 |-> 0]
CheckerOff == [pc |-> "off", matches |-> {}, current |-> NoMatch,
               unprocessed_count |-> 0]
ConnectionsInit ==
    /\ pending_connections = {}
    /\ pending_ids = 0
    /\ optimistic_connections = <<>>
    /\ creators = [h \in Handlers |-> NoCreator]
    /\ checker = CheckerOff
    /\ submitted = <<>>

(***************************************************************************)
(* services/contract.rs: submit_together_transaction.                      *)
(***************************************************************************)
MAX_RETRY_ATTEMPTS == 3
NONCE_RETRY_ATTEMPTS == 3
\* the hashes the node may give a transaction
TxHashes == {"0xa1", "0xb2"}
NoResult == [kind |-> "none", hash |-> ""]
Ok(hash) == [kind |-> "Ok", hash |-> hash]
Err == [kind |-> "Err", hash |-> ""]
NoTx == [pc |-> "none", attempt |-> 0, nonce_attempt |-> 0, sends |-> <<>>,
         receipt |-> "none", result |-> NoResult]

\* contract.rs line 251: for attempt in 0..MAX_RETRY_ATTEMPTS
in_range_inclusive(attempt) == attempt <= MAX_RETRY_ATTEMPTS
in_range(attempt) == attempt < MAX_RETRY_ATTEMPTS

\* continue: the next attempt, or the Err after the loop (line 374)
Continue(t) ==
    IF in_range(t.attempt + 1)
    THEN [t EXCEPT !.pc = "nonce", !.attempt = t.attempt + 1, !.nonce_attempt = 0]
    ELSE [t EXCEPT !.pc = "done", !.attempt = t.attempt + 1, !.result = Err]

\* an error of the kind that is retried until the last attempt (lines 279,
\* 286 and 365)
ErrOnLastAttempt(t) ==
    IF t.attempt = MAX_RETRY_ATTEMPTS - 1
    THEN [t EXCEPT !.pc = "done", !.result = Err]
    ELSE Continue(t)

(***************************************************************************)
(* What the watcher never touches starts unused: no limiter is             *)
(* constructed, no connection request was made, no transaction is being    *)
(* submitted.                                                              *)
(***************************************************************************)
ServicesInit ==
    /\ now = 0
    /\ RateLimitsInit
    /\ ConnectionsInit
    /\ tx = NoTx

(***************************************************************************)
(* Initial state: an empty database, the process waiting for its first     *)
(* timer tick, the chain at some head.                                     *)
(***************************************************************************)
HeadAt(k) == AUCTION_WATCHER_START_BLOCK - 1 + k * HeadStep
Heads == {HeadAt(k) : k \in 0..MaxHeadSteps}

LocalsInit ==
    /\ from_block = 0 /\ chunk_size = 0 /\ iter_count = 0 /\ failures_in_row = 0
    /\ seen_events = {} /\ latest_block = 0 /\ current_latest = 0 /\ to_block = 0
    /\ auction_events = <<>> /\ presale_events = <<>> /\ idx = 0 /\ delay = 0

Init ==
    /\ row = NoRow
    /\ auctions = [h \in CastHashes |-> NoAuction]
    /\ sold = {}
    /\ applied = {}
    /\ chainHead = HeadAt(0)
    /\ pc = "idle"
    /\ LocalsInit
    /\ other = OtherOff
    /\ TogetherInit
    /\ conversion = NoConversion
    /\ ServicesInit

\* watch_auctions returns (Ok or Err) or the process is killed: its locals are gone.
DropLocals ==
    /\ from_block' = 0 /\ chunk_size' = 0 /\ iter_count' = 0 /\ failures_in_row' = 0
    /\ seen_events' = {} /\ latest_block' = 0 /\ current_latest' = 0 /\ to_block' = 0
    /\ auction_events' = <<>> /\ presale_events' = <<>> /\ idx' = 0 /\ delay' = 0

Return == pc' = "idle" /\ DropLocals


(***************************************************************************)
(* The chain and the RPC node.                                             *)
(***************************************************************************)
\* The chain grows.
ChainAdvance ==
    /\ chainHead < HeadAt(MaxHeadSteps)
    /\ chainHead' = chainHead + HeadStep
    /\ UNCHANGED <<other, together, conversion, services, db, pc, from_block, chunk_size, iter_count, failures_in_row,
                   seen_events, latest_block, current_latest, to_block, fetched, delay>>

\* What eth_blockNumber can answer: the head, or an older head when the node lags.
BlockNumberAnswers == {h \in Heads : h <= chainHead}

(***************************************************************************)
(* main: the timer loop, and the process being killed and restarted.       *)
(***************************************************************************)
\* interval.tick() fires and main calls watch_auctions
Tick ==
    /\ pc \in {"idle", "restarted"}
    /\ pc' = "load"
    /\ UNCHANGED <<db, env, from_block, chunk_size, iter_count, failures_in_row,
                   seen_events, latest_block, current_latest, to_block, fetched, delay>>

\* The process is killed at an await of watch_auctions and restarted: the
\* database keeps what was written, the locals are lost, and the new process
\* waits at main's first tick.
Kill ==
    /\ pc \notin {"idle", "restarted"}
    /\ pc' = "restarted"
    /\ DropLocals
    /\ UNCHANGED <<db, env>>

(***************************************************************************)
(* watch_auctions, lines 88-98: load the cursor, read the head.            *)
(***************************************************************************)
StartAt(last_processed_block, chunk) ==
    /\ from_block' = ResumeFrom(last_processed_block)
    /\ chunk_size' = chunk
    /\ iter_count' = 0
    /\ failures_in_row' = 0
    /\ seen_events' = {}
    /\ pc' = "head"
    /\ UNCHANGED <<business, env, latest_block, current_latest, to_block, fetched, delay>>

\* load_watcher_state, Some(row)
LoadExisting ==
    /\ pc = "load"
    /\ row.present
    /\ StartAt(row.last_processed_block, row.chunk_size)
    /\ UNCHANGED row

\* A default cursor that names the start block itself as processed.
DefaultLastProcessedAtStart == AUCTION_WATCHER_START_BLOCK
\* line 645: the last_processed_block of the default state
DefaultLastProcessed == AUCTION_WATCHER_START_BLOCK - 1

\* load_watcher_state, None: the default state is saved, then returned
LoadInit ==
    /\ pc = "load"
    /\ ~row.present
    /\ row' = save_watcher_state(DefaultLastProcessed, INITIAL_CHUNK_SIZE)
    /\ StartAt(DefaultLastProcessed, INITIAL_CHUNK_SIZE)

\* load_watcher_state returns Err (the SELECT or the initial save failed)
LoadErr ==
    /\ pc = "load"
    /\ Return
    /\ UNCHANGED <<db, env>>

\* line 96, Ok(h)
HeadOkAt(h) ==
    /\ pc = "head"
    /\ latest_block' = h
    /\ pc' = "loop"
    /\ UNCHANGED <<db, env, from_block, chunk_size, iter_count, failures_in_row,
                   seen_events, current_latest, to_block, fetched, delay>>

\* line 96, Ok: any answer of the node
HeadOk == \E h \in BlockNumberAnswers : HeadOkAt(h)

\* line 96, Ok: the node is in sync with the chain
HeadOkInSync == HeadOkAt(chainHead)

\* line 96, Err: watch_auctions returns it
HeadErr ==
    /\ pc = "head"
    /\ Return
    /\ UNCHANGED <<db, env>>

(***************************************************************************)
(* watch_auctions, lines 100-122: the head of one loop iteration.          *)
(***************************************************************************)
\* lines 117-122 with current_latest = head: break, or hand the range to
\* process_block_range
Plan(head) ==
    IF from_block > head
    THEN Return /\ UNCHANGED <<db, env>>
    ELSE /\ current_latest' = head
         /\ to_block' = ToBlock(from_block, chunk_size, head)
         /\ pc' = "fetchA"
         /\ UNCHANGED <<db, env, from_block, chunk_size, iter_count,
                        failures_in_row, seen_events, latest_block, fetched, delay>>

\* line 100: the while condition is false; cleanup, then Ok(())
LoopExit ==
    /\ pc = "loop"
    /\ ~(from_block <= latest_block)
    /\ Return
    /\ UNCHANGED <<db, env>>

\* lines 102-107: the head is read again
RefreshOk ==
    /\ pc = "loop"
    /\ from_block <= latest_block
    /\ RefreshDue(iter_count)
    /\ \E h \in BlockNumberAnswers : Plan(h)

\* lines 102-107: the head is read again from a node in sync with the chain
RefreshOkInSync ==
    /\ pc = "loop"
    /\ from_block <= latest_block
    /\ RefreshDue(iter_count)
    /\ Plan(chainHead)

\* lines 108-111: the read failed, latest_block is used
RefreshErr ==
    /\ pc = "loop"
    /\ from_block <= latest_block
    /\ RefreshDue(iter_count)
    /\ Plan(latest_block)

\* line 114
NoRefresh ==
    /\ pc = "loop"
    /\ from_block <= latest_block
    /\ ~RefreshDue(iter_count)
    /\ Plan(latest_block)

(***************************************************************************)
(* watch_auctions, lines 141-155: process_block_range returned Err.        *)
(***************************************************************************)
\* A failure branch that also saves the shrunk chunk size.
FailureBranchPersisting ==
    /\ failures_in_row < MaxFailuresInRow
    /\ iter_count < MaxFailIters
    /\ failures_in_row' = failures_in_row + 1
    /\ chunk_size' = ShrinkChunk(chunk_size)
    /\ row' = save_watcher_state(row.last_processed_block, ShrinkChunk(chunk_size))
    /\ IF SleepsOnFailure(chunk_size)
       THEN /\ pc' = "sleep"
            /\ delay' = SleepSecs(failures_in_row + 1)
            /\ iter_count' = iter_count
       ELSE /\ pc' = "loop"
            /\ delay' = 0
            /\ iter_count' = iter_count + 1
    /\ current_latest' = 0 /\ to_block' = 0
    /\ auction_events' = <<>> /\ presale_events' = <<>> /\ idx' = 0
    /\ UNCHANGED <<env, from_block, latest_block>>

FailureBranch ==
    /\ failures_in_row < MaxFailuresInRow
    /\ iter_count < MaxFailIters
    /\ failures_in_row' = failures_in_row + 1
    /\ chunk_size' = ShrinkChunk(chunk_size)
    /\ IF SleepsOnFailure(chunk_size)
       THEN /\ pc' = "sleep"
            /\ delay' = SleepSecs(failures_in_row + 1)
            /\ iter_count' = iter_count
       ELSE /\ pc' = "loop"
            /\ delay' = 0
            /\ iter_count' = iter_count + 1
    /\ current_latest' = 0 /\ to_block' = 0
    /\ auction_events' = <<>> /\ presale_events' = <<>> /\ idx' = 0
    /\ UNCHANGED <<row, env, from_block, latest_block>>

\* line 147: the sleep ends; line 155
Wake ==
    /\ pc = "sleep"
    /\ pc' = "loop"
    /\ delay' = 0
    /\ iter_count' = iter_count + 1
    /\ UNCHANGED <<db, env, from_block, chunk_size, failures_in_row,
                   seen_events, latest_block, current_latest, to_block, fetched>>


(***************************************************************************)
(* process_block_range, lines 176-184: the two fetches.                    *)
(***************************************************************************)
FetchAuctionOk ==
    /\ pc = "fetchA"
    /\ auction_events' = FetchLogs("auction", from_block, to_block)
    /\ pc' = "fetchP"
    /\ UNCHANGED <<db, env, from_block, chunk_size, iter_count, failures_in_row,
                   seen_events, latest_block, current_latest, to_block,
                   presale_events, idx, delay>>

FetchAuctionErr ==
    /\ pc = "fetchA"
    /\ FailureBranch
    /\ UNCHANGED <<business, seen_events>>

FetchPresaleOk ==
    /\ pc = "fetchP"
    /\ presale_events' = FetchLogs("presale", from_block, to_block)
    /\ idx' = 1
    /\ pc' = "procA"
    /\ UNCHANGED <<db, env, from_block, chunk_size, iter_count, failures_in_row,
                   seen_events, latest_block, current_latest, to_block,
                   auction_events, delay>>

\* A presale fetch that records the keys of the auction logs before it fails.
FetchPresaleErrAfterRecording ==
    /\ pc = "fetchP"
    /\ FailureBranch
    /\ seen_events' = seen_events \cup
                        {EventKey(auction_events[i]) : i \in 1..Len(auction_events)}
    /\ UNCHANGED business

FetchPresaleErr ==
    /\ pc = "fetchP"
    /\ FailureBranch
    /\ UNCHANGED <<business, seen_events>>

(***************************************************************************)
(* process_block_range, lines 198-270: one auction event per step.         *)
(***************************************************************************)
\* the loop moves to the next event
NextEvent ==
    /\ idx' = idx + 1
    /\ UNCHANGED <<row, env, pc, from_block, chunk_size, iter_count,
                   failures_in_row, latest_block, current_latest, to_block,
                   auction_events, presale_events, delay>>

AtAuctionEvent == pc = "procA" /\ idx <= Len(auction_events)

\* lines 200-203: the key is in seen_events
AuctionSkipDuplicate ==
    /\ AtAuctionEvent
    /\ EventKey(auction_events[idx]) \in seen_events
    /\ NextEvent
    /\ UNCHANGED <<business, seen_events>>

\* lines 204-209, 234-238, 261-269: the key is recorded; the event has no
\* topics, an unknown signature, or its decoder returns None
AuctionSkip ==
    /\ AtAuctionEvent
    /\ LET l == auction_events[idx] IN
        /\ EventKey(l) \notin seen_events
        /\ seen_events' = seen_events \cup {EventKey(l)}
        /\ \/ l.ntopics = 0
           \/ l.ntopics > 0 /\ l.topics0 \notin {"AuctionStarted", "AuctionSettled"}
           \/ l.ntopics > 0 /\ l.topics0 = "AuctionStarted" /\ ~decode_auction_started_log(l)
           \/ l.ntopics > 0 /\ l.topics0 = "AuctionSettled" /\ ~decode_auction_settled_log(l)
    /\ NextEvent
    /\ UNCHANGED business

AuctionToSink(topic) ==
    /\ AtAuctionEvent
    /\ LET l == auction_events[idx] IN
        /\ EventKey(l) \notin seen_events
        /\ l.ntopics > 0
        /\ l.topics0 = topic
        /\ seen_events' = seen_events \cup {EventKey(l)}

\* lines 218-227: process_auction_started returns Ok
AuctionStartedOk ==
    /\ AuctionToSink("AuctionStarted")
    /\ decode_auction_started_log(auction_events[idx])
    /\ ~decode_auction_started_panics(auction_events[idx])
    /\ auctions' = process_auction_started(auctions, auction_events[idx])
    /\ applied' = applied \cup {auction_events[idx].id}
    /\ NextEvent
    /\ UNCHANGED sold

\* lines 228-231: process_auction_started returns Err, either because the
\* upsert failed (nothing written) or because the verification SELECT failed
\* (the upsert is in the table); process_block_range returns it
AuctionStartedErr ==
    /\ AuctionToSink("AuctionStarted")
    /\ decode_auction_started_log(auction_events[idx])
    /\ ~decode_auction_started_panics(auction_events[idx])
    /\ \/ UNCHANGED <<auctions, applied>>
       \/ /\ auctions' = process_auction_started(auctions, auction_events[idx])
          /\ applied' = applied \cup {auction_events[idx].id}
    /\ FailureBranch
    /\ UNCHANGED sold

\* line 404 panics inside decode_auction_started_log: the panic unwinds
\* through watch_auctions and main, and the process exits
AuctionStartedPanic ==
    /\ AtAuctionEvent
    /\ LET l == auction_events[idx] IN
        /\ EventKey(l) \notin seen_events
        /\ l.ntopics > 0
        /\ l.topics0 = "AuctionStarted"
        /\ decode_auction_started_panics(l)
    /\ pc' = "crashed"
    /\ DropLocals
    /\ UNCHANGED <<db, env>>

\* lines 245-254: process_auction_settled returns Ok
AuctionSettledOk ==
    /\ AuctionToSink("AuctionSettled")
    /\ decode_auction_settled_log(auction_events[idx])
    /\ auctions' = process_auction_settled(auctions, auction_events[idx])
    /\ applied' = applied \cup {auction_events[idx].id}
    /\ NextEvent
    /\ UNCHANGED sold

\* lines 255-258: process_auction_settled returns Err, before or after its
\* write; process_block_range returns it
AuctionSettledErr ==
    /\ AuctionToSink("AuctionSettled")
    /\ decode_auction_settled_log(auction_events[idx])
    /\ \/ UNCHANGED <<auctions, applied>>
       \/ /\ auctions' = process_auction_settled(auctions, auction_events[idx])
          /\ applied' = applied \cup {auction_events[idx].id}
    /\ FailureBranch
    /\ UNCHANGED sold

\* line 270: the auction loop is over, the presale loop starts
AuctionLoopDone ==
    /\ pc = "procA"
    /\ idx > Len(auction_events)
    /\ pc' = "procP"
    /\ idx' = 1
    /\ UNCHANGED <<db, env, from_block, chunk_size, iter_count, failures_in_row,
                   seen_events, latest_block, current_latest, to_block,
                   auction_events, presale_events, delay>>

(***************************************************************************)
(* process_block_range, lines 273-318: one presale event per step.         *)
(***************************************************************************)
AtPresaleEvent == pc = "procP" /\ idx <= Len(presale_events)

\* lines 275-278
PresaleSkipDuplicate ==
    /\ AtPresaleEvent
    /\ EventKey(presale_events[idx]) \in seen_events
    /\ NextEvent
    /\ UNCHANGED <<business, seen_events>>

\* lines 279-284, 309-317
PresaleSkip ==
    /\ AtPresaleEvent
    /\ LET l == presale_events[idx] IN
        /\ EventKey(l) \notin seen_events
        /\ seen_events' = seen_events \cup {EventKey(l)}
        /\ \/ l.ntopics = 0
           \/ l.ntopics > 0 /\ l.topics0 # "PresaleClaimed"
           \/ l.ntopics > 0 /\ l.topics0 = "PresaleClaimed" /\ ~decode_presale_claimed_log(l)
    /\ NextEvent
    /\ UNCHANGED business

PresaleToSink ==
    /\ AtPresaleEvent
    /\ LET l == presale_events[idx] IN
        /\ EventKey(l) \notin seen_events
        /\ l.ntopics > 0
        /\ l.topics0 = "PresaleClaimed"
        /\ decode_presale_claimed_log(l)
        /\ seen_events' = seen_events \cup {EventKey(l)}

\* lines 293-302: process_presale_claimed returns Ok
PresaleClaimedOk ==
    /\ PresaleToSink
    /\ sold' = mark_nft_sold(sold, presale_events[idx])
    /\ applied' = applied \cup {presale_events[idx].id}
    /\ NextEvent
    /\ UNCHANGED auctions

\* lines 303-306: mark_nft_sold returns Err; process_block_range returns it
PresaleClaimedErr ==
    /\ PresaleToSink
    /\ FailureBranch
    /\ UNCHANGED business

(***************************************************************************)
(* watch_auctions, lines 125-140: process_block_range returned Ok.         *)
(***************************************************************************)
\* lines 131-136, up to the await of save_watcher_state
PresaleLoopDone ==
    /\ pc = "procP"
    /\ idx > Len(presale_events)
    /\ failures_in_row' = 0
    /\ chunk_size' = GrowChunk(chunk_size)
    /\ from_block' = to_block + 1
    /\ pc' = "save"
    /\ auction_events' = <<>> /\ presale_events' = <<>> /\ idx' = 0
    /\ UNCHANGED <<db, env, iter_count, seen_events, latest_block,
                   current_latest, to_block, delay>>

\* line 139, Ok; line 155
SaveOk ==
    /\ pc = "save"
    /\ row' = save_watcher_state(CommittedBlock(from_block), chunk_size)
    /\ iter_count' = iter_count + 1
    /\ pc' = "loop"
    /\ current_latest' = 0 /\ to_block' = 0
    /\ UNCHANGED <<business, env, from_block, chunk_size, failures_in_row,
                   seen_events, latest_block, fetched, delay>>

\* line 139, Err: watch_auctions returns it
SaveErr ==
    /\ pc = "save"
    /\ Return
    /\ UNCHANGED <<db, env>>

Next ==
    \/ ChainAdvance \/ Tick \/ Kill
    \/ LoadExisting \/ LoadInit \/ LoadErr \/ HeadOk \/ HeadErr
    \/ LoopExit \/ RefreshOk \/ RefreshErr \/ NoRefresh
    \/ FetchAuctionOk \/ FetchAuctionErr \/ FetchPresaleOk \/ FetchPresaleErr
    \/ AuctionSkipDuplicate \/ AuctionSkip \/ AuctionStartedOk \/ AuctionStartedErr
    \/ AuctionSettledOk \/ AuctionSettledErr \/ AuctionLoopDone
    \/ PresaleSkipDuplicate \/ PresaleSkip \/ PresaleClaimedOk \/ PresaleClaimedErr
    \/ PresaleLoopDone \/ SaveOk \/ SaveErr \/ Wake

Spec == Init /\ [][Next]_vars

(***************************************************************************)
(* The watcher against a node whose eth_blockNumber never goes back, run   *)
(* fairly: a watcher that can take a step eventually takes one.  A range   *)
(* cannot fail forever: FailureBranch stops after MaxFailIters iterations. *)
(***************************************************************************)
\* the steps of main and watch_auctions (not the chain's, not a kill)
WatcherStepInSync ==
    \/ LoadExisting \/ LoadInit \/ LoadErr \/ HeadOkInSync \/ HeadErr
    \/ LoopExit \/ RefreshOkInSync \/ RefreshErr \/ NoRefresh
    \/ FetchAuctionOk \/ FetchAuctionErr \/ FetchPresaleOk \/ FetchPresaleErr
    \/ AuctionSkipDuplicate \/ AuctionSkip \/ AuctionStartedOk \/ AuctionStartedErr
    \/ AuctionSettledOk \/ AuctionSettledErr \/ AuctionLoopDone
    \/ PresaleSkipDuplicate \/ PresaleSkip \/ PresaleClaimedOk \/ PresaleClaimedErr
    \/ PresaleLoopDone \/ SaveOk \/ SaveErr \/ Wake

\* The chain grows, up to a head below the one of ChainAdvance.
MaxHeadStepsInSync == 3
ChainAdvanceInSync ==
    /\ chainHead < HeadAt(MaxHeadStepsInSync)
    /\ ChainAdvance

NextInSync == ChainAdvanceInSync \/ Tick \/ Kill \/ WatcherStepInSync

SpecInSyncFair == Init /\ [][NextInSync]_vars /\ WF_vars(WatcherStepInSync)




(***************************************************************************)
(* decode_auction_started_log over the values of topics[3]:                *)
(* process_block_range has fetched one AuctionStarted log of the first     *)
(* range and is about to decode it.  The topic takes the bytes of FidBytes *)
(* at the lowest byte above 64 bits, at the top byte of the u64 and at the *)
(* lowest byte; topics[3] is a uint96, so all of them can occur.           *)
(***************************************************************************)
FidBytes == {0, 1, 127, 128, 255}
FidTopics ==
    {[i \in 1..32 |-> CASE i = 24 -> a [] i = 25 -> b [] i = 32 -> c [] OTHER -> 0] :
        a \in FidBytes, b \in FidBytes, c \in FidBytes}

StartedLogWith(topic) ==
    [Log(1, AUCTION_WATCHER_START_BLOCK + 10, "auction", "AuctionStarted", 4, FALSE,
         "h1", 0, 170, "t0") EXCEPT !.topics3 = topic]

InitDecodeFid ==
    /\ row = Row(AUCTION_WATCHER_START_BLOCK - 1, INITIAL_CHUNK_SIZE)
    /\ auctions = [h \in CastHashes |-> NoAuction]
    /\ sold = {}
    /\ applied = {}
    /\ chainHead = HeadAt(1)
    /\ pc = "procA"
    /\ from_block = AUCTION_WATCHER_START_BLOCK
    /\ chunk_size = INITIAL_CHUNK_SIZE
    /\ iter_count = 0
    /\ failures_in_row = 0
    /\ seen_events = {}
    /\ latest_block = HeadAt(1)
    /\ current_latest = HeadAt(1)
    /\ to_block = HeadAt(1)
    /\ \E topic \in FidTopics : auction_events = <<StartedLogWith(topic)>>
    /\ presale_events = <<>>
    /\ idx = 1
    /\ delay = 0
    /\ other = OtherOff
    /\ TogetherInit
    /\ conversion = NoConversion
    /\ ServicesInit

NextDecodeFid == AuctionStartedOk \/ AuctionStartedErr \/ AuctionStartedPanic

SpecDecodeFid == InitDecodeFid /\ [][NextDecodeFid]_vars

(***************************************************************************)
(* The watcher with an operator who may start the process with --reset or  *)
(* --from-start (main, lines 48 and 65-68).  pc = "restarted" is a process *)
(* that has just been started; pc = "crashed" one that has exited.         *)
(***************************************************************************)
\* A reset that also runs the commented-out DELETE FROM auctions.
reset_watcher_state_clearing_auctions ==
    /\ row' = NoRow
    /\ auctions' = [h \in CastHashes |-> NoAuction]
    /\ UNCHANGED <<sold, applied>>
\* reset_watcher_state: DELETE FROM watcher_state WHERE id = AUCTION_WATCHER_ID
reset_watcher_state ==
    /\ row' = NoRow
    /\ UNCHANGED business

\* lines 65-68, the flag was given and the DELETE succeeded: main goes on to
\* its timer loop
ResetOk ==
    /\ pc = "restarted"
    /\ reset_watcher_state
    /\ pc' = "idle"
    /\ UNCHANGED <<env, from_block, chunk_size, iter_count, failures_in_row,
                   seen_events, latest_block, current_latest, to_block, fetched, delay>>

\* lines 65-68, the DELETE failed: main returns the Err and the process exits
ResetErr ==
    /\ pc = "restarted"
    /\ pc' = "crashed"
    /\ UNCHANGED <<db, env, from_block, chunk_size, iter_count, failures_in_row,
                   seen_events, latest_block, current_latest, to_block, fetched, delay>>

NextReset == Next \/ ResetOk \/ ResetErr

SpecReset == Init /\ [][NextReset]_vars

(***************************************************************************)
(* db::attestations::update_watcher_state (src/backend/src/db/             *)
(* attestations.rs, lines 229-253) on one row of watcher_state.  A         *)
(* nullable value is a sequence of length 0 or 1.  The row starts absent   *)
(* or with any block and chunk size of StoredBlocks and StoredChunks; the  *)
(* calls pass chunk_size = None.                                           *)
(***************************************************************************)
MaxStoredBlocks == 20
StoredBlocks ==
    {AUCTION_WATCHER_START_BLOCK - 1 + k : k \in 0..MaxStoredBlocks}
StoredChunks == {7, MIN_CHUNK_SIZE, 250, INITIAL_CHUNK_SIZE, 1000, MAX_CHUNK_SIZE}

\* line 248: chunk_size.unwrap_or(500)
UNWRAP_OR_CHUNK_SIZE == 500
unwrap_or(opt, default) == IF opt = <<>> THEN default ELSE opt[1]
\* SQL COALESCE of a nullable value and a value
COALESCE(a, b) == IF a # <<>> THEN a[1] ELSE b

\* lines 236-250: the upsert with $2 = last_processed_block and
\* $3 = chunk_size.unwrap_or(500), which is never NULL
update_watcher_state(r, last_processed_block, chunk_size_opt) ==
    LET bound3 == <<unwrap_or(chunk_size_opt, UNWRAP_OR_CHUNK_SIZE)>> IN
    IF r.present
    THEN Row(last_processed_block, COALESCE(bound3, r.chunk_size))
    ELSE Row(last_processed_block, bound3[1])

InitStore ==
    /\ row \in {NoRow} \cup {Row(b, c) : b \in StoredBlocks, c \in StoredChunks}
    /\ auctions = [h \in CastHashes |-> NoAuction]
    /\ sold = {}
    /\ applied = {}
    /\ chainHead = HeadAt(0)
    /\ pc = "idle"
    /\ LocalsInit
    /\ other = OtherOff
    /\ TogetherInit
    /\ conversion = NoConversion
    /\ ServicesInit

\* update_watcher_state(pool, id, b, None)
UpdateWatcherStateNone ==
    /\ \E b \in StoredBlocks : row' = update_watcher_state(row, b, <<>>)
    /\ UNCHANGED <<business, env, pc, from_block, chunk_size, iter_count,
                   failures_in_row, seen_events, latest_block, current_latest,
                   to_block, fetched, delay>>

NextStore == UpdateWatcherStateNone

SpecStore == InitStore /\ [][NextStore]_vars

(***************************************************************************)
(* Two watcher processes with the same AUCTION_WATCHER_ID on one database. *)
(* The first is the process above, here without failures and kills and     *)
(* with a node in sync; the second runs the same watch_auctions, one step  *)
(* per range: it loads the cursor and reads the head (lines 88-96),        *)
(* processes a range (lines 121-136), saves (lines 138-139), and returns   *)
(* when the loop ends (line 100).  Nothing in the code ties a cursor row   *)
(* to one process.                                                         *)
(***************************************************************************)
\* the sink writes of process_block_range over the auction logs of a range
RECURSIVE ApplyAuctionLogs(_, _)
ApplyAuctionLogs(tbl, logs) ==
    IF logs = <<>> THEN tbl
    ELSE LET l == Head(logs) IN
         ApplyAuctionLogs(IF ~Persistable(l) THEN tbl
                          ELSE IF l.topics0 = "AuctionStarted"
                               THEN process_auction_started(tbl, l)
                               ELSE process_auction_settled(tbl, l),
                          Tail(logs))

RECURSIVE ApplyPresaleLogs(_, _)
ApplyPresaleLogs(s, logs) ==
    IF logs = <<>> THEN s
    ELSE ApplyPresaleLogs(IF Persistable(Head(logs)) THEN mark_nft_sold(s, Head(logs)) ELSE s,
                          Tail(logs))

PersistableIds(logs) == {logs[i].id : i \in {j \in 1..Len(logs) : Persistable(logs[j])}}

\* lines 88-96 of the second process: load_watcher_state and the head
OtherBegin ==
    /\ other.pc \in {"off", "idle"}
    /\ row' = IF row.present THEN row
              ELSE save_watcher_state(DefaultLastProcessed, INITIAL_CHUNK_SIZE)
    /\ other' = [pc |-> "loop",
                 from_block |-> ResumeFrom(row'.last_processed_block),
                 chunk_size |-> row'.chunk_size,
                 latest_block |-> chainHead]
    /\ UNCHANGED <<business, chainHead, together, conversion, services, pc, from_block, chunk_size, iter_count,
                   failures_in_row, seen_events, latest_block, current_latest,
                   to_block, fetched, delay>>

\* lines 121-136 of the second process: one range is fetched and applied
OtherRangeOk ==
    /\ other.pc = "loop"
    /\ other.from_block <= other.latest_block
    /\ LET to == ToBlock(other.from_block, other.chunk_size, other.latest_block)
           alogs == FetchLogs("auction", other.from_block, to)
           plogs == FetchLogs("presale", other.from_block, to)
       IN /\ auctions' = ApplyAuctionLogs(auctions, alogs)
          /\ sold' = ApplyPresaleLogs(sold, plogs)
          /\ applied' = applied \cup PersistableIds(alogs) \cup PersistableIds(plogs)
          /\ other' = [other EXCEPT !.pc = "save",
                                    !.from_block = to + 1,
                                    !.chunk_size = GrowChunk(other.chunk_size)]
    /\ UNCHANGED <<row, chainHead, together, conversion, services, pc, from_block, chunk_size, iter_count,
                   failures_in_row, seen_events, latest_block, current_latest,
                   to_block, fetched, delay>>

\* lines 138-139 of the second process
OtherSaveOk ==
    /\ other.pc = "save"
    /\ row' = save_watcher_state(CommittedBlock(other.from_block), other.chunk_size)
    /\ other' = [other EXCEPT !.pc = "loop"]
    /\ UNCHANGED <<business, chainHead, together, conversion, services, pc, from_block, chunk_size, iter_count,
                   failures_in_row, seen_events, latest_block, current_latest,
                   to_block, fetched, delay>>

\* line 100 of the second process: the loop ends, the call returns
OtherReturn ==
    /\ other.pc = "loop"
    /\ ~(other.from_block <= other.latest_block)
    /\ other' = [OtherOff EXCEPT !.pc = "idle"]
    /\ UNCHANGED <<db, chainHead, together, conversion, services, pc, from_block, chunk_size, iter_count,
                   failures_in_row, seen_events, latest_block, current_latest,
                   to_block, fetched, delay>>

NextTwo ==
    \/ ChainAdvance \/ Tick
    \/ LoadExisting \/ LoadInit \/ HeadOkInSync
    \/ LoopExit \/ RefreshOkInSync \/ NoRefresh
    \/ FetchAuctionOk \/ FetchPresaleOk
    \/ AuctionSkip \/ AuctionStartedOk \/ AuctionSettledOk \/ AuctionLoopDone
    \/ PresaleSkip \/ PresaleClaimedOk \/ PresaleLoopDone \/ SaveOk
    \/ OtherBegin \/ OtherRangeOk \/ OtherSaveOk \/ OtherReturn

SpecTwo == Init /\ [][NextTwo]_vars
(***************************************************************************)
(* decode_auction_settled_log and decode_presale_claimed_log over the      *)
(* values of the address topic: process_block_range has fetched one        *)
(* AuctionSettled log and one PresaleClaimed log of the first range, both  *)
(* carrying the same topic, and is about to decode them.  The topic takes  *)
(* the bytes of AddressBytes at its first byte, at the last byte above the *)
(* address, and at the first and last byte of the address.                 *)
(***************************************************************************)
AddressBytes == {0, 1, 171, 255}
AddressTopics ==
    {[i \in 1..32 |-> CASE i = 1 -> a [] i = 12 -> b [] i = 13 -> c [] i = 32 -> d
                        [] OTHER -> 0] :
        a \in AddressBytes, b \in AddressBytes, c \in AddressBytes, d \in AddressBytes}

SettledLogWith(topic) ==
    [Log(3, AUCTION_WATCHER_START_BLOCK + 10, "auction", "AuctionSettled", 4, FALSE,
         "h1", 0, 0, "t0") EXCEPT !.address_topic = topic]
ClaimedLogWith(topic) ==
    [Log(2, AUCTION_WATCHER_START_BLOCK + 10, "presale", "PresaleClaimed", 3, FALSE,
         "h0", 0, 0, "t1") EXCEPT !.address_topic = topic]

InitDecodeAddress ==
    /\ row = Row(AUCTION_WATCHER_START_BLOCK - 1, INITIAL_CHUNK_SIZE)
    /\ auctions = [h \in CastHashes |-> NoAuction]
    /\ sold = {}
    /\ applied = {}
    /\ chainHead = HeadAt(1)
    /\ pc = "procA"
    /\ from_block = AUCTION_WATCHER_START_BLOCK
    /\ chunk_size = INITIAL_CHUNK_SIZE
    /\ iter_count = 0
    /\ failures_in_row = 0
    /\ seen_events = {}
    /\ latest_block = HeadAt(1)
    /\ current_latest = HeadAt(1)
    /\ to_block = HeadAt(1)
    /\ \E topic \in AddressTopics :
        /\ auction_events = <<SettledLogWith(topic)>>
        /\ presale_events = <<ClaimedLogWith(topic)>>
    /\ idx = 1
    /\ delay = 0
    /\ other = OtherOff
    /\ TogetherInit
    /\ conversion = NoConversion
    /\ ServicesInit

NextDecodeAddress ==
    \/ AuctionSettledOk \/ AuctionSettledErr \/ AuctionLoopDone
    \/ PresaleClaimedOk \/ PresaleClaimedErr

SpecDecodeAddress == InitDecodeAddress /\ [][NextDecodeAddress]_vars

(***************************************************************************)
(* handlers/together.rs, submit_attestation, and insert_attestation, which *)
(* it calls: one step per statement sent to the database.  The addresses   *)
(* of the requests parse as Address (lines 599-614); the username cache    *)
(* that follows the insert only logs its failures.                         *)
(***************************************************************************)
MaxAttestations == 2

WatcherLocals == <<pc, from_block, chunk_size, iter_count, failures_in_row, seen_events,
                   latest_block, current_latest, to_block, fetched, delay>>

\* the request arrives; a new row is accepted while the table has room
SubmitAttestation ==
    /\ handler.pc = "idle"
    /\ \E a \in Addresses, b \in Addresses, t \in Timestamps :
        /\ \/ Cardinality(together_attestations) < MaxAttestations
           \/ Attestation(Ordered[a, b][1], Ordered[a, b][2], t) \in together_attestations
        /\ handler' = [pc |-> "insert", addr1 |-> Ordered[a, b][1],
                       addr2 |-> Ordered[a, b][2], timestamp |-> t,
                       response |-> "none"]
    /\ UNCHANGED <<db, chainHead, other, WatcherLocals, conversion, services,
                   together_attestations, together_counts>>

\* submit_attestation answers 500 (lines 623-631)
Answer500 == handler' = [handler EXCEPT !.pc = "idle", !.response = "500"]

\* lines 21-35: the INSERT returns its row
InsertAttestationOk ==
    /\ handler.pc = "insert"
    /\ LET r == Attestation(handler.addr1, handler.addr2, handler.timestamp) IN
        /\ RETURNING(together_attestations, r) # <<>>
        /\ together_attestations' = together_attestations \cup {r}
    /\ handler' = [handler EXCEPT !.pc = "count1"]
    /\ UNCHANGED <<db, chainHead, other, WatcherLocals, conversion, services, together_counts>>

\* lines 25-35: the INSERT conflicts and returns no row; fetch_one fails with
\* RowNotFound and `?` returns it
InsertAttestationNoRow ==
    /\ handler.pc = "insert"
    /\ RETURNING(together_attestations,
                 Attestation(handler.addr1, handler.addr2, handler.timestamp)) = <<>>
    /\ Answer500
    /\ UNCHANGED <<db, chainHead, other, WatcherLocals, conversion, services,
                   together_attestations, together_counts>>

\* lines 34-35: the database fails the INSERT
InsertAttestationErr ==
    /\ handler.pc = "insert"
    /\ Answer500
    /\ UNCHANGED <<db, chainHead, other, WatcherLocals, conversion, services,
                   together_attestations, together_counts>>

\* line 38
UpdateCount1Ok ==
    /\ handler.pc = "count1"
    /\ together_counts' =
        update_address_count(together_counts, together_attestations, handler.addr1)
    /\ handler' = [handler EXCEPT !.pc = "count2"]
    /\ UNCHANGED <<db, chainHead, other, WatcherLocals, conversion, services, together_attestations>>

UpdateCount1Err ==
    /\ handler.pc = "count1"
    /\ Answer500
    /\ UNCHANGED <<db, chainHead, other, WatcherLocals, conversion, services,
                   together_attestations, together_counts>>

\* lines 39-41 and 633-660: insert_attestation returns Ok, the handler 200
UpdateCount2Ok ==
    /\ handler.pc = "count2"
    /\ together_counts' =
        update_address_count(together_counts, together_attestations, handler.addr2)
    /\ handler' = [handler EXCEPT !.pc = "idle", !.response = "200"]
    /\ UNCHANGED <<db, chainHead, other, WatcherLocals, conversion, services, together_attestations>>

UpdateCount2Err ==
    /\ handler.pc = "count2"
    /\ Answer500
    /\ UNCHANGED <<db, chainHead, other, WatcherLocals, conversion, services,
                   together_attestations, together_counts>>

NextTogether ==
    \/ SubmitAttestation
    \/ InsertAttestationOk \/ InsertAttestationNoRow \/ InsertAttestationErr
    \/ UpdateCount1Ok \/ UpdateCount1Err
    \/ UpdateCount2Ok \/ UpdateCount2Err

SpecTogether == Init /\ [][NextTogether]_vars

(***************************************************************************)
(* The sinks of decoded events, called with any event in any order:        *)
(* process_auction_started, process_auction_settled and                    *)
(* process_presale_claimed of the watcher, and insert_attestation, each    *)
(* call as a whole and without a database failure.                         *)
(***************************************************************************)
SinkLogs ==
    { Log(1,  AUCTION_WATCHER_START_BLOCK + 10, "auction", "AuctionStarted", 4, FALSE, "h1", 7, 0,   "t0"),
      Log(21, AUCTION_WATCHER_START_BLOCK + 10, "auction", "AuctionStarted", 4, FALSE, "h1", 8, 0,   "t0"),
      Log(3,  AUCTION_WATCHER_START_BLOCK + 10, "auction", "AuctionSettled", 4, FALSE, "h1", 0, 204, "t0"),
      Log(23, AUCTION_WATCHER_START_BLOCK + 10, "auction", "AuctionSettled", 4, FALSE, "h1", 0, 221, "t0"),
      Log(2,  AUCTION_WATCHER_START_BLOCK + 10, "presale", "PresaleClaimed", 3, FALSE, "h0", 0, 187, "t1") }

\* insert_attestation, lines 14-41, when the database answers every statement:
\* the two tables afterwards and the result
insert_attestation(rows, counts, address_1, address_2, attestation_timestamp) ==
    LET o == Ordered[address_1, address_2]
        r == Attestation(o[1], o[2], attestation_timestamp)
    IN  IF RETURNING(rows, r) = <<>>
        THEN [rows |-> rows, counts |-> counts, result |-> "Err"]
        ELSE LET inserted == rows \cup {r}
                 counted1 == update_address_count(counts, inserted, o[1])
             IN  [rows |-> inserted,
                  counts |-> update_address_count(counted1, inserted, o[2]),
                  result |-> "Ok"]

ProcessAuctionStarted ==
    /\ \E l \in SinkLogs :
        /\ l.topics0 = "AuctionStarted"
        /\ auctions' = process_auction_started(auctions, l)
    /\ UNCHANGED <<row, sold, applied, chainHead, other, WatcherLocals, together, conversion, services>>

ProcessAuctionSettled ==
    /\ \E l \in SinkLogs :
        /\ l.topics0 = "AuctionSettled"
        /\ auctions' = process_auction_settled(auctions, l)
    /\ UNCHANGED <<row, sold, applied, chainHead, other, WatcherLocals, together, conversion, services>>

ProcessPresaleClaimed ==
    /\ \E l \in SinkLogs :
        /\ l.topics0 = "PresaleClaimed"
        /\ sold' = mark_nft_sold(sold, l)
    /\ UNCHANGED <<row, auctions, applied, chainHead, other, WatcherLocals, together, conversion, services>>

InsertAttestation ==
    /\ \E a \in Addresses, b \in Addresses, t \in Timestamps :
        LET done == insert_attestation(together_attestations, together_counts, a, b, t) IN
        /\ Cardinality(done.rows) <= MaxAttestations
        /\ together_attestations' = done.rows
        /\ together_counts' = done.counts
    /\ UNCHANGED <<db, chainHead, other, WatcherLocals, conversion, services, handler>>

NextSinks ==
    \/ ProcessAuctionStarted \/ ProcessAuctionSettled \/ ProcessPresaleClaimed
    \/ InsertAttestation

SpecSinks == Init /\ [][NextSinks]_vars

(***************************************************************************)
(* token_id_to_cast_hash and cast_hash_to_token_id, one after the other,   *)
(* on the decimal string of each token id of TokenIds.                     *)
(***************************************************************************)
InitTokenConversion ==
    /\ row = NoRow
    /\ auctions = [h \in CastHashes |-> NoAuction]
    /\ sold = {}
    /\ applied = {}
    /\ chainHead = HeadAt(0)
    /\ pc = "idle"
    /\ LocalsInit
    /\ other = OtherOff
    /\ TogetherInit
    /\ ServicesInit
    /\ \E t \in TokenIds :
        conversion = [NoConversion EXCEPT !.pc = "start", !.expected = <<t>>,
                                          !.token_id = to_decimal(t)]

\* token_id_to_cast_hash, lines 8-14
TokenIdToCastHash ==
    /\ conversion.pc = "start"
    /\ \E h \in token_id_u256_to_cast_hash(
                    parse_U256(conversion.token_id, [i \in 1..32 |-> 0])) :
        conversion' = [conversion EXCEPT !.pc = "hashed", !.cast_hash = h]
    /\ UNCHANGED <<db, chainHead, other, WatcherLocals, together, services>>

\* cast_hash_to_token_id, lines 30-41
CastHashToTokenId ==
    /\ conversion.pc = "hashed"
    /\ conversion' = [conversion EXCEPT
                        !.pc = "recovered",
                        !.recovered = cast_hash_to_token_id(conversion.cast_hash)]
    /\ UNCHANGED <<db, chainHead, other, WatcherLocals, together, services>>

NextTokenConversion == TokenIdToCastHash \/ CastHashToTokenId

SpecTokenConversion == InitTokenConversion /\ [][NextTokenConversion]_vars

(***************************************************************************)
(* The server that proxies JSON-RPC requests, or the Alchemy service: the  *)
(* limiter calls of proxy_rpc and of get_nfts_for_owner as time passes.    *)
(* The server has been up for a tick: the address 203.0.113.7 has two      *)
(* requests left in its window and made one of the others a tick ago, the  *)
(* clients without an address have one request left.                       *)
(***************************************************************************)
TickSeconds == 30
MaxNow == 60

RpcLimiterNearlyFull ==
    [Limiter(ClientIps) EXCEPT
        !["203.0.113.7"] = <<0>> \o [i \in 1..(RPC_RATE_LIMIT - 3) |-> TickSeconds],
        !["unknown"] = [i \in 1..(RPC_RATE_LIMIT - 1) |-> TickSeconds]]

InitProxy ==
    /\ row = NoRow
    /\ auctions = [h \in CastHashes |-> NoAuction]
    /\ sold = {}
    /\ applied = {}
    /\ chainHead = HeadAt(0)
    /\ pc = "idle"
    /\ LocalsInit
    /\ other = OtherOff
    /\ TogetherInit
    /\ conversion = NoConversion
    /\ ConnectionsInit
    /\ tx = NoTx
    /\ \/ /\ now = TickSeconds
          /\ rpc_requests = RpcLimiterNearlyFull
          /\ alchemy_requests = NoLimiter
          /\ admitted = [NoAdmitted EXCEPT !.rpc = RpcLimiterNearlyFull]
          /\ proxy = [NoProxy EXCEPT !.pc = "idle"]
       \/ /\ now = 0
          /\ rpc_requests = NoLimiter
          /\ alchemy_requests = Limiter(Owners)
          /\ admitted = NoAdmitted
          /\ proxy = NoProxy

NotServices == <<db, chainHead, other, WatcherLocals, together, conversion,
                 connections, tx>>

\* Instant::now() moves on
ClockAdvance ==
    /\ now < MaxNow
    /\ now' = now + TickSeconds
    /\ UNCHANGED <<NotServices, rate_limits>>

\* proxy_rpc up to the validation of the body, rpc.rs lines 64-118: the
\* limiter and the network parameter
ProxyRpc ==
    /\ proxy.pc \in {"idle", "answered"}
    /\ \E client_ip \in ClientIps :
        \E limited \in {can_make_request(rpc_requests, RPC_RATE_LIMIT,
                                         RPC_WINDOW_SECONDS, client_ip, now)} :
            /\ rpc_requests' = limited.requests
            /\ admitted' =
                IF limited.ok
                THEN [admitted EXCEPT !.rpc[client_ip] = Append(@, now)]
                ELSE admitted
            /\ \E network \in Networks, body \in ProxiedBodies :
                LET request == [NoProxy EXCEPT !.client_ip = client_ip,
                                               !.network = network, !.body = body]
                IN  proxy' =
                        IF ~limited.ok
                        THEN [request EXCEPT !.pc = "answered", !.status = 429]
                        ELSE IF ~rpc_url_chosen(network)
                        THEN [request EXCEPT !.pc = "answered", !.status = 400]
                        ELSE [request EXCEPT !.pc = "validate"]
    /\ UNCHANGED <<NotServices, now, alchemy_requests>>

\* proxy_rpc, rpc.rs lines 120-145: the body is validated and the request
\* is sent upstream
ValidateBody ==
    /\ proxy.pc = "validate"
    /\ proxy' =
        IF ~is_valid_jsonrpc_request(proxy.body)
        THEN [proxy EXCEPT !.pc = "answered", !.status = 400]
        ELSE [proxy EXCEPT !.pc = "forwarding", !.forwarded = TRUE]
    /\ UNCHANGED <<NotServices, now, rpc_requests, alchemy_requests, admitted>>

\* the upstream answers, rpc.rs lines 147-181: a JSON body of a success
\* status, or anything else
UpstreamAnswers ==
    /\ proxy.pc = "forwarding"
    /\ \E status \in {200, 502} :
        proxy' = [proxy EXCEPT !.pc = "answered", !.status = status]
    /\ UNCHANGED <<NotServices, now, rpc_requests, alchemy_requests, admitted>>

\* get_nfts_for_owner up to drop(rate_limiter), alchemy.rs lines 102-106
GetNftsForOwner ==
    /\ alchemy_requests # NoLimiter
    /\ \E owner_address \in Owners :
        LET limited == can_make_request(alchemy_requests, ALCHEMY_RATE_LIMIT_PER_MINUTE,
                                        RATE_LIMIT_WINDOW_SECONDS, owner_address, now)
        IN  /\ alchemy_requests' = limited.requests
            /\ admitted' =
                IF limited.ok
                THEN [admitted EXCEPT !.alchemy[owner_address] = Append(@, now)]
                ELSE admitted
    /\ UNCHANGED <<NotServices, now, rpc_requests, proxy>>

NextProxy == ClockAdvance \/ ProxyRpc \/ ValidateBody \/ UpstreamAnswers \/ GetNftsForOwner

SpecProxy == InitProxy /\ [][NextProxy]_vars

\* proxy_rpc at line 121 with a body in hand: the limiter and the network
\* parameter have let the request through
InitJsonRpc ==
    /\ row = NoRow
    /\ auctions = [h \in CastHashes |-> NoAuction]
    /\ sold = {}
    /\ applied = {}
    /\ chainHead = HeadAt(0)
    /\ pc = "idle"
    /\ LocalsInit
    /\ other = OtherOff
    /\ TogetherInit
    /\ conversion = NoConversion
    /\ ConnectionsInit
    /\ tx = NoTx
    /\ now = 0
    /\ rpc_requests = [Limiter(ClientIps) EXCEPT !["unknown"] = <<0>>]
    /\ alchemy_requests = NoLimiter
    /\ admitted = [NoAdmitted EXCEPT !.rpc["unknown"] = <<0>>]
    /\ \E body \in Bodies :
        proxy = [NoProxy EXCEPT !.pc = "validate", !.client_ip = "unknown",
                                !.body = body]

NextJsonRpc == ValidateBody \/ UpstreamAnswers

SpecJsonRpc == InitJsonRpc /\ [][NextJsonRpc]_vars

(***************************************************************************)
(* The server answering create_pending_connection requests on two tasks    *)
(* while one connection checker runs.  Users 1 and 2 exist, user 3 does    *)
(* not; users 1 and 2 have matched before, and none of their optimistic    *)
(* connections has been marked processed.  Every call to the database may  *)
(* fail.                                                                   *)
(***************************************************************************)
EarlierMatches ==
    [i \in 1..PreloadedOptimistic |->
        [id |-> i, user_id_1 |-> 1, user_id_2 |-> 2, processed |-> FALSE]]

InitConnections ==
    /\ row = NoRow
    /\ auctions = [h \in CastHashes |-> NoAuction]
    /\ sold = {}
    /\ applied = {}
    /\ chainHead = HeadAt(0)
    /\ pc = "idle"
    /\ LocalsInit
    /\ other = OtherOff
    /\ TogetherInit
    /\ conversion = NoConversion
    /\ now = 0
    /\ RateLimitsInit
    /\ tx = NoTx
    /\ pending_connections = {}
    /\ pending_ids = 0
    /\ optimistic_connections = EarlierMatches
    /\ creators = [h \in Handlers |-> NoCreator]
    /\ checker = [CheckerOff EXCEPT !.pc = "idle"]
    /\ submitted = <<>>

NotConnections == <<db, chainHead, other, WatcherLocals, together, conversion,
                    now, rate_limits, tx>>

Answer(h, status) ==
    creators' = [creators EXCEPT ![h].pc = "idle", ![h].status = status]

\* the handler create_pending_connection, together.rs lines 225-275: both
\* users are looked up, then the request is compared with itself
CreateRequest(h) ==
    /\ creators[h].pc = "idle"
    /\ \E request \in Requests, db_ok \in BOOLEAN :
          creators' = [creators EXCEPT ![h] =
              [from_user_id |-> request[1],
               to_user_id |-> request[2],
               status |-> IF ~db_ok THEN 500
                          ELSE IF ~get_user_by_id(request[1]) THEN 404
                          ELSE IF ~get_user_by_id(request[2]) THEN 404
                          ELSE IF request[1] = request[2] THEN 400
                          ELSE 0,
               pc |-> IF /\ db_ok
                         /\ get_user_by_id(request[1])
                         /\ get_user_by_id(request[2])
                         /\ request[1] # request[2]
                      THEN "check" ELSE "idle"]]
    /\ UNCHANGED <<NotConnections, pending_connections, pending_ids,
                   optimistic_connections, checker, submitted>>

\* together.rs lines 277-296: is there an unexpired pending connection
CheckExisting(h) ==
    /\ creators[h].pc = "check"
    /\ \/ /\ get_pending_connection(pending_connections, creators[h].from_user_id,
                                    creators[h].to_user_id, now) # {}
          /\ Answer(h, 409)
       \/ /\ get_pending_connection(pending_connections, creators[h].from_user_id,
                                    creators[h].to_user_id, now) = {}
          /\ creators' = [creators EXCEPT ![h].pc = "insert"]
       \/ Answer(h, 500)
    /\ UNCHANGED <<NotConnections, pending_connections, pending_ids,
                   optimistic_connections, checker, submitted>>

\* together.rs lines 298-315: the insert and the answer
InsertPending(h) ==
    /\ creators[h].pc = "insert"
    /\ \/ /\ pending_ids < MaxPendingIds
          /\ pending_connections' =
                create_pending_connection(pending_connections, pending_ids + 1,
                                          creators[h].from_user_id,
                                          creators[h].to_user_id, now)
          /\ pending_ids' = pending_ids + 1
          /\ Answer(h, 200)
       \/ /\ Answer(h, 500)
          /\ UNCHANGED <<pending_connections, pending_ids>>
    /\ UNCHANGED <<NotConnections, optimistic_connections, checker, submitted>>

\* run_connection_checker, connection_checker.rs lines 41-56: the tick and
\* the clean-up, whose failure is logged
DeleteExpired ==
    /\ checker.pc = "idle"
    /\ pending_connections' \in
          {delete_expired_pending_connections(pending_connections, now),
           pending_connections}
    /\ checker' = [checker EXCEPT !.pc = "find"]
    /\ UNCHANGED <<NotConnections, pending_ids, optimistic_connections, creators,
                   submitted>>

\* connection_checker.rs lines 73-91: the matches of this tick
FindMatches ==
    /\ checker.pc = "find"
    /\ \E matches \in {find_pending_connection_matches(pending_connections, now), {}} :
          checker' = [checker EXCEPT
                        !.pc = IF matches = {} THEN "idle" ELSE "match",
                        !.matches = matches]
    /\ UNCHANGED <<NotConnections, pending_connections, pending_ids,
                   optimistic_connections, creators, submitted>>

\* process_connection_match has returned: the next match, or the next tick
Returned(rest) ==
    [checker EXCEPT !.pc = IF rest = {} THEN "idle" ELSE "match",
                    !.matches = rest]

\* process_connection_match, connection_checker.rs lines 95-114
CountUnprocessed ==
    /\ checker.pc = "match"
    /\ \E connection_match \in checker.matches :
        \E unprocessed_count \in
              {count_unprocessed_optimistic_connections(
                  optimistic_connections,
                  connection_match.pending_1.from_user_id,
                  connection_match.pending_1.to_user_id)} :
           \/ /\ too_many(unprocessed_count)
              /\ checker' = [Returned(checker.matches \ {connection_match})
                                EXCEPT !.unprocessed_count = unprocessed_count]
           \/ /\ ~too_many(unprocessed_count)
              /\ checker' = [checker EXCEPT
                                !.pc = "create",
                                !.matches = checker.matches \ {connection_match},
                                !.current = connection_match,
                                !.unprocessed_count = unprocessed_count]
           \/ checker' = Returned(checker.matches \ {connection_match})
    /\ UNCHANGED <<NotConnections, pending_connections, pending_ids,
                   optimistic_connections, creators, submitted>>

\* connection_checker.rs lines 116-126
CreateOptimistic ==
    /\ checker.pc = "create"
    /\ \/ /\ optimistic_connections' =
                create_optimistic_connection(optimistic_connections,
                                             checker.current.pending_1.from_user_id,
                                             checker.current.pending_1.to_user_id)
          /\ submitted' = Append(submitted,
                [optimistic |-> Len(optimistic_connections) + 1,
                 pending_1 |-> checker.current.pending_1.id,
                 pending_2 |-> checker.current.pending_2.id,
                 result |-> "created"])
          /\ checker' = [checker EXCEPT !.pc = "delete_1"]
       \/ /\ checker' = Returned(checker.matches)
          /\ UNCHANGED <<optimistic_connections, submitted>>
    /\ UNCHANGED <<NotConnections, pending_connections, pending_ids, creators>>

\* connection_checker.rs lines 128-131: a failure is logged
DeletePending1 ==
    /\ checker.pc = "delete_1"
    /\ pending_connections' \in
          {delete_pending_connection_by_id(pending_connections,
                                           checker.current.pending_1.id),
           pending_connections}
    /\ checker' = [checker EXCEPT !.pc = "delete_2"]
    /\ UNCHANGED <<NotConnections, pending_ids, optimistic_connections, creators,
                   submitted>>

\* connection_checker.rs lines 133-135
DeletePending2 ==
    /\ checker.pc = "delete_2"
    /\ pending_connections' \in
          {delete_pending_connection_by_id(pending_connections,
                                           checker.current.pending_2.id),
           pending_connections}
    /\ checker' = [checker EXCEPT !.pc = "submit"]
    /\ UNCHANGED <<NotConnections, pending_ids, optimistic_connections, creators,
                   submitted>>

\* connection_checker.rs lines 139-159: the transaction is sent or not, and
\* process_connection_match returns Ok
SubmitTransaction ==
    /\ checker.pc = "submit"
    /\ \E result \in {"sent", "failed"} :
          submitted' = [submitted EXCEPT ![Len(submitted)].result = result]
    /\ checker' = Returned(checker.matches)
    /\ UNCHANGED <<NotConnections, pending_connections, pending_ids,
                   optimistic_connections, creators>>

CheckerStep ==
    \/ DeleteExpired
    \/ FindMatches
    \/ CountUnprocessed
    \/ CreateOptimistic
    \/ DeletePending1
    \/ DeletePending2
    \/ SubmitTransaction

CreatorStep == \E h \in Handlers : CreateRequest(h) \/ CheckExisting(h) \/ InsertPending(h)

NextConnections == ClockAdvance \/ CreatorStep \/ CheckerStep

SpecConnections == InitConnections /\ [][NextConnections]_vars

\* The checker beside one task of the server.  The checker's loop never
\* stops, and time passes.
NextChecker ==
    \/ ClockAdvance
    \/ CreateRequest(1)
    \/ CheckExisting(1)
    \/ InsertPending(1)
    \/ CheckerStep

SpecCheckerFair ==
    /\ InitConnections
    /\ [][NextChecker]_vars
    /\ WF_vars(CheckerStep)
    /\ WF_vars(ClockAdvance)

(***************************************************************************)
(* One call of submit_together_transaction: the node may fail or time out  *)
(* at every request, and gives a transaction it accepts one of two hashes. *)
(***************************************************************************)
InitSubmit ==
    /\ row = NoRow
    /\ auctions = [h \in CastHashes |-> NoAuction]
    /\ sold = {}
    /\ applied = {}
    /\ chainHead = HeadAt(0)
    /\ pc = "idle"
    /\ LocalsInit
    /\ other = OtherOff
    /\ TogetherInit
    /\ conversion = NoConversion
    /\ now = 0
    /\ RateLimitsInit
    /\ ConnectionsInit
    /\ tx = [NoTx EXCEPT !.pc = "start"]

NotTx == <<db, chainHead, other, WatcherLocals, together, conversion, now,
           rate_limits, connections>>

\* contract.rs lines 205-249: the key, the provider, the signature and the
\* gas price, each returning Err when it fails
PrepareTransaction ==
    /\ tx.pc = "start"
    /\ \/ tx' = [tx EXCEPT !.pc = "nonce"]
       \/ tx' = [tx EXCEPT !.pc = "done", !.result = Err]
    /\ UNCHANGED NotTx

\* get_nonce_with_retry, contract.rs lines 115-135, called at line 253
GetNonce ==
    /\ tx.pc = "nonce"
    /\ \/ tx' = [tx EXCEPT !.pc = "estimate"]
       \/ tx' = IF tx.nonce_attempt = NONCE_RETRY_ATTEMPTS - 1
                THEN [tx EXCEPT !.pc = "done", !.result = Err]
                ELSE [tx EXCEPT !.nonce_attempt = tx.nonce_attempt + 1]
    /\ UNCHANGED NotTx

\* contract.rs lines 271-291: the estimate, its failure or its timeout
EstimateGas ==
    /\ tx.pc = "estimate"
    /\ \/ tx' = [tx EXCEPT !.pc = "send"]
       \/ tx' = ErrOnLastAttempt(tx)
    /\ UNCHANGED NotTx

\* contract.rs lines 305-309 and 349-370: send_transaction
SendTransaction ==
    /\ tx.pc = "send"
    /\ \/ \E hash \in TxHashes :
            tx' = [tx EXCEPT !.pc = "receipt",
                             !.sends = Append(tx.sends, [outcome |-> "sent",
                                                         hash |-> hash])]
       \/ tx' = Continue([tx EXCEPT !.sends =
                    Append(tx.sends, [outcome |-> "nonce conflict", hash |-> ""])])
       \/ tx' = ErrOnLastAttempt([tx EXCEPT !.sends =
                    Append(tx.sends, [outcome |-> "error", hash |-> ""])])
    /\ UNCHANGED NotTx

\* contract.rs lines 311-347: the wait for the receipt, and Ok whatever it
\* yields
WaitForReceipt ==
    /\ tx.pc = "receipt"
    /\ \E receipt \in {"confirmed", "reverted", "error", "timeout"} :
          tx' = [tx EXCEPT !.pc = "done",
                           !.receipt = receipt,
                           !.result = Ok(tx.sends[Len(tx.sends)].hash)]
    /\ UNCHANGED NotTx

NextSubmit ==
    \/ PrepareTransaction
    \/ GetNonce
    \/ EstimateGas
    \/ SendTransaction
    \/ WaitForReceipt

SpecSubmit == InitSubmit /\ [][NextSubmit]_vars

(***************************************************************************)
(* Vocabulary of the properties.                                           *)
(***************************************************************************)
\* process_block_range is running for [from_block, to_block]
RangePcs == {"fetchA", "fetchP", "procA", "procP"}
\* the locals of watch_auctions are live
CallPcs == {"loop", "fetchA", "fetchP", "procA", "procP", "save", "sleep"}

\* steps of the planner (action-level)
FailedAttempt == failures_in_row' = failures_in_row + 1
RangeSucceeded == pc = "procP" /\ pc' = "save"
CursorSaved == pc = "save" /\ pc' = "loop"

LogsIn(from, to) ==
    {ChainLogs[i] : i \in {j \in 1..Len(ChainLogs) :
                           from <= ChainLogs[j].block /\ ChainLogs[j].block <= to}}

(***************************************************************************)
(* C1.  The cursor is advanced to to_block only if every persistable log   *)
(* of the range (not removed, known signature, decodes) has been applied   *)
(* by its sink operation, also when the range is a retry after a           *)
(* persistence error in the same call, with the same seen_events.          *)
(***************************************************************************)
C1_AdvanceOnlyAfterAllApplied ==
    [][CursorSaved =>
         \A l \in LogsIn(row.last_processed_block + 1, row'.last_processed_block) :
             Persistable(l) => l.id \in applied]_vars

(***************************************************************************)
(* C2.  After every successfully processed range the persisted             *)
(* last_processed_block is the range's to_block, and the persisted         *)
(* last_processed_block never decreases over ticks, failures and restarts. *)
(***************************************************************************)
C2_CursorEqualsToBlockAndNeverRegresses ==
    [][/\ CursorSaved => row'.present /\ row'.last_processed_block = to_block
       /\ row.present =>
            row'.present /\ row'.last_processed_block >= row.last_processed_block]_vars

\* a restarted process finds a cursor that an earlier call advanced
C2_Witness ==
    /\ pc = "restarted"
    /\ row.present
    /\ row.last_processed_block > AUCTION_WATCHER_START_BLOCK + HeadStep

(***************************************************************************)
(* C3.  In the state a killed and restarted process finds, every           *)
(* persistable log of every block from the start block up to the persisted *)
(* last_processed_block has been applied to the business tables.           *)
(***************************************************************************)
C3_RestartFindsCoveredLogsApplied ==
    (pc = "restarted" /\ row.present) =>
        \A l \in LogsIn(AUCTION_WATCHER_START_BLOCK, row.last_processed_block) :
            Persistable(l) => l.id \in applied

(***************************************************************************)
(* C4.  A failed range attempt leaves last_processed_block and from_block  *)
(* unchanged and makes the working chunk size                              *)
(* max(chunk_size / 2, MIN_CHUNK_SIZE).                                    *)
(***************************************************************************)
C4_FailureHalvesChunkKeepsCursor ==
    [][FailedAttempt =>
         /\ row' = row
         /\ from_block' = from_block
         /\ chunk_size' = Max(chunk_size \div 2, MIN_CHUNK_SIZE)
         /\ chunk_size' >= MIN_CHUNK_SIZE]_vars

\* a failure at the minimum chunk size has happened
C4_Witness ==
    /\ pc = "sleep"
    /\ chunk_size = MIN_CHUNK_SIZE
    /\ failures_in_row = 4

(***************************************************************************)
(* C5.  A successful range makes the chunk size                            *)
(* min(chunk_size * 2, MAX_CHUNK_SIZE), and the one cursor write that      *)
(* follows stores that chunk size together with the advanced               *)
(* last_processed_block.                                                   *)
(***************************************************************************)
C5_SuccessDoublesChunkAndSavesBoth ==
    [][/\ RangeSucceeded => chunk_size' = Min(chunk_size * 2, MAX_CHUNK_SIZE)
       /\ CursorSaved => row' = Row(to_block, chunk_size)]_vars

\* a range succeeds with the chunk size already at the maximum
C5_Witness ==
    /\ pc = "save"
    /\ chunk_size = MAX_CHUNK_SIZE
    /\ row.chunk_size = MAX_CHUNK_SIZE
    /\ iter_count = 0

(***************************************************************************)
(* C6.  From a fresh cursor, the working and the persisted chunk size stay *)
(* within MIN_CHUNK_SIZE..MAX_CHUNK_SIZE.                                  *)
(***************************************************************************)
C6_ChunkSizeWithinBounds ==
    /\ row.present =>
         MIN_CHUNK_SIZE <= row.chunk_size /\ row.chunk_size <= MAX_CHUNK_SIZE
    /\ pc \in CallPcs \cup {"head"} =>
         MIN_CHUNK_SIZE <= chunk_size /\ chunk_size <= MAX_CHUNK_SIZE

\* the stored chunk size at the maximum while the working one is at the minimum
C6_Witness ==
    /\ row.present /\ row.chunk_size = MAX_CHUNK_SIZE
    /\ pc = "sleep" /\ chunk_size = MIN_CHUNK_SIZE

(***************************************************************************)
(* C7.  As claimed: after a failed range attempt the halved chunk size is  *)
(* the one in the cursor store (last_processed_block unchanged), so that a *)
(* restart right after the failure resumes with the reduced chunk size.    *)
(***************************************************************************)
C7_FailurePersistsHalvedChunk ==
    (pc \in {"loop", "sleep"} /\ failures_in_row > 0) =>
        /\ row.chunk_size = chunk_size
        /\ row.last_processed_block = from_block - 1

(***************************************************************************)
(* C7, amended.  A failed range attempt writes nothing to the cursor       *)
(* store: the row is written only when a range has succeeded or when the   *)
(* row is created, and a call resumes with the chunk size the row holds.   *)
(***************************************************************************)
C7_FailureWritesNoCursor ==
    [][/\ FailedAttempt => row' = row
       /\ row' # row => CursorSaved \/ (pc = "load" /\ ~row.present)
       /\ (pc = "load" /\ pc' = "head") =>
            chunk_size' = row'.chunk_size]_vars

\* after failures the working chunk size is below the stored one
C7_Witness ==
    /\ pc \in {"loop", "sleep"}
    /\ failures_in_row > 0
    /\ row.present
    /\ chunk_size < row.chunk_size

C9_RangesContiguous ==
    /\ [](pc \in RangePcs =>
            /\ row.present
            /\ from_block = row.last_processed_block + 1
            /\ from_block >= AUCTION_WATCHER_START_BLOCK
            /\ from_block <= to_block)
    /\ [][/\ FailedAttempt => from_block' = from_block
          /\ RangeSucceeded =>
               from_block' = to_block + 1 /\ from_block = row.last_processed_block + 1
          /\ CursorSaved =>
               /\ row'.last_processed_block = to_block
               /\ row'.last_processed_block > row.last_processed_block
               /\ from_block' = row'.last_processed_block + 1
          /\ (~row.present /\ row'.present) =>
               row'.last_processed_block = AUCTION_WATCHER_START_BLOCK - 1]_vars

\* a failed range is retried after an earlier range of the same call was committed
C9_Witness ==
    /\ pc = "fetchA"
    /\ failures_in_row > 0
    /\ iter_count > failures_in_row
    /\ from_block > AUCTION_WATCHER_START_BLOCK

HeadReRead == ENABLED RefreshOk \/ ENABLED RefreshErr
\* the window of the iteration reaches the head read at the start of the call
NearHead == from_block + chunk_size - 1 >= latest_block
\* the loop is about to run one more iteration
AtIteration == pc = "loop" /\ from_block <= latest_block

\* C11 as stated: the head is re-read on every iteration that is within one
\* chunk of the last known head, and only every 10 iterations otherwise.
C11_ReReadWheneverNearHead ==
    AtIteration =>
        (HeadReRead <=> (NearHead \/ iter_count % REFRESH_LATEST_BLOCK_EVERY_N_ITERS = 0))

\* C11 as the code has it: the head is re-read exactly on the iterations
\* whose iter_count is a multiple of 10, however near the head the window
\* is; every other iteration plans its range against the head read at the
\* start of the call.
C11_ReReadOnlyEveryTenth ==
    /\ [](AtIteration =>
            (HeadReRead <=> iter_count % REFRESH_LATEST_BLOCK_EVERY_N_ITERS = 0))
    /\ [][(pc = "loop" /\ pc' = "fetchA"
             /\ iter_count % REFRESH_LATEST_BLOCK_EVERY_N_ITERS # 0) =>
               current_latest' = latest_block]_vars

\* an iteration within one chunk of a head that has since moved, planned
\* against the old head
C11_Witness ==
    /\ pc = "fetchA"
    /\ iter_count % REFRESH_LATEST_BLOCK_EVERY_N_ITERS # 0
    /\ NearHead
    /\ current_latest = latest_block
    /\ chainHead > latest_block

(***************************************************************************)
(* C12.  With a chain head that never goes back and no range failing       *)
(* forever, every call of watch_auctions ends, and a call that returns Ok  *)
(* leaves the stored last_processed_block at or above the head it read at  *)
(* its start (line 96).                                                    *)
(***************************************************************************)
\* watch_auctions is running
InCall == pc \in CallPcs \cup {"load", "head"}
\* watch_auctions returns Ok(()) (line 164): the loop ended
ReturnsOk == pc = "loop" /\ pc' = "idle"

C12_CallTerminatesCaughtUp ==
    /\ [](InCall => <>(~InCall))
    /\ [][ReturnsOk =>
            row.present /\ row.last_processed_block >= latest_block]_vars

\* a call that worked through several ranges is about to return Ok, the
\* cursor at the head it read at its start
C12_Witness ==
    /\ pc = "loop"
    /\ iter_count >= 2
    /\ from_block > latest_block
    /\ row.last_processed_block = latest_block
    /\ latest_block > AUCTION_WATCHER_START_BLOCK

(***************************************************************************)
(* C13.  No RPC error, persistence error or decode failure ends the        *)
(* orchestrator: the process never exits by itself, a failed range is      *)
(* followed by another iteration of the same call, and after every return  *)
(* of watch_auctions main can tick again.                                  *)
(***************************************************************************)
C13_NoFailureEndsOrchestrator ==
    /\ [](pc # "crashed")
    /\ [](pc = "idle" => ENABLED Tick)
    /\ [][FailedAttempt => pc' \in {"loop", "sleep"}]_vars

(***************************************************************************)
(* C14.  load_watcher_state: without a cursor row it writes and returns    *)
(* (AUCTION_WATCHER_START_BLOCK - 1, INITIAL_CHUNK_SIZE), so the first     *)
(* range starts at the start block; with a row it returns the row and      *)
(* writes nothing.                                                         *)
(***************************************************************************)
\* load_watcher_state returns Ok (line 88)
Loaded == pc = "load" /\ pc' = "head"

C14_LoadReturnsRowOrInitialises ==
    /\ [][Loaded =>
            /\ UNCHANGED business
            /\ IF row.present
               THEN /\ row' = row
                    /\ from_block' = row.last_processed_block + 1
                    /\ chunk_size' = row.chunk_size
               ELSE /\ row' = Row(AUCTION_WATCHER_START_BLOCK - 1, INITIAL_CHUNK_SIZE)
                    /\ from_block' = AUCTION_WATCHER_START_BLOCK
                    /\ chunk_size' = INITIAL_CHUNK_SIZE]_vars
    /\ []((pc \in RangePcs /\ row.last_processed_block = AUCTION_WATCHER_START_BLOCK - 1) =>
            from_block = AUCTION_WATCHER_START_BLOCK)

\* the first range after the cursor was initialised
C14_Witness ==
    /\ pc = "fetchA"
    /\ row = Row(AUCTION_WATCHER_START_BLOCK - 1, INITIAL_CHUNK_SIZE)
    /\ from_block = AUCTION_WATCHER_START_BLOCK
    /\ iter_count = 0
    /\ applied = {}

(***************************************************************************)
(* C15.  The cursor row is deleted only by the reset of a process that has *)
(* just been started, before its timer loop; the delete leaves the         *)
(* business tables as they are, and the load that follows initialises the  *)
(* cursor at the start block.                                              *)
(***************************************************************************)
C15_ResetDeletesOnlyCursorAtStart ==
    /\ [][(row.present /\ ~row'.present) =>
            pc = "restarted" /\ pc' = "idle" /\ UNCHANGED business]_vars
    /\ [][(Loaded /\ ~row.present) =>
            /\ row' = Row(AUCTION_WATCHER_START_BLOCK - 1, INITIAL_CHUNK_SIZE)
            /\ from_block' = AUCTION_WATCHER_START_BLOCK]_vars
    /\ [](pc \in CallPcs => row.present)

\* a reset after events were applied: the tables are kept, the cursor is gone
C15_Witness ==
    /\ ~row.present
    /\ pc = "idle"
    /\ applied # {}
    /\ auctions["h1"].present

(***************************************************************************)
(* C16.  update_watcher_state with chunk_size = None on an existing row    *)
(* stores the new last_processed_block and leaves the stored chunk_size at *)
(* its previous value, whatever it is.                                     *)
(***************************************************************************)
C16_NoneKeepsStoredChunk ==
    [][row.present =>
        /\ row'.present
        /\ row'.last_processed_block \in StoredBlocks
        /\ row'.chunk_size = row.chunk_size]_vars

(***************************************************************************)
(* C17.  The cursor save is an unconditional overwrite by whichever        *)
(* process runs it: with two processes interleaved the stored              *)
(* last_processed_block can go back, while as long as no second process    *)
(* was started it never does.                                              *)
(***************************************************************************)
OtherCursorSaved == other.pc = "save" /\ other'.pc = "loop"

C17_SaveOverwritesWhateverIsStored ==
    /\ [][CursorSaved =>
            row' = Row(from_block - 1, chunk_size)]_vars
    /\ [][OtherCursorSaved =>
            row' = Row(other.from_block - 1, other.chunk_size)]_vars
    /\ [][(other.pc = "off" /\ row.present) =>
            row'.present /\ row'.last_processed_block >= row.last_processed_block]_vars

\* the second process has just saved a cursor below the block the first
\* process had already committed
C17_Witness ==
    /\ pc = "loop"
    /\ iter_count > 0
    /\ other.pc = "loop"
    /\ row.last_processed_block = other.from_block - 1
    /\ row.last_processed_block < from_block - 1

(***************************************************************************)
(* C18.  A log with removed = true causes no sink write, whatever its      *)
(* topics, for every event type, and it is skipped without failing the     *)
(* range.  (No other log of the chain writes the cast hash or token of a   *)
(* removed one, so the tables show whether it was written.)                *)
(***************************************************************************)
AllLogs == {ChainLogs[i] : i \in 1..Len(ChainLogs)}

\* the log the for loop of process_block_range is at, when its key is new
AtNewLog(l) ==
    /\ EventKey(l) \notin seen_events
    /\ \/ AtAuctionEvent /\ l = auction_events[idx]
       \/ AtPresaleEvent /\ l = presale_events[idx]

\* the step leaves the log unwritten and the iteration of the planner
\* unfailed: the for loop goes on to the next event (or the process is killed)
SkippedOrUntouched ==
    /\ UNCHANGED business
    /\ ~FailedAttempt
    /\ pc' \in {pc, "restarted"}
    /\ idx' \in {idx, idx + 1, 0}

C18_RemovedLogNeverWritten ==
    /\ [](\A l \in AllLogs : l.removed =>
            /\ l.id \notin applied
            /\ l.contract = "auction" => ~auctions[l.cast_hash].present
            /\ l.contract = "presale" => l.token_id \notin sold)
    /\ [][\A l \in AllLogs : (l.removed /\ AtNewLog(l)) => SkippedOrUntouched]_vars

\* the range that holds the removed logs of the three event types was
\* worked through and committed in this call
C18_Witness ==
    /\ pc = "loop"
    /\ row.last_processed_block >= AUCTION_WATCHER_START_BLOCK + 130
    /\ {EventKey(l) : l \in {m \in AllLogs : m.removed}} \subseteq seen_events
    /\ 3 \in applied
    /\ failures_in_row = 0

(***************************************************************************)
(* C19.  A log that cannot be decoded (no topics, an unknown topics[0], or *)
(* fewer topics than its event needs: 4 for AuctionStarted and             *)
(* AuctionSettled, 3 for PresaleClaimed) causes no sink write and no       *)
(* failure; the for loop goes on with the other logs of the batch, and the *)
(* range is committed.                                                     *)
(***************************************************************************)
Undecodable(l) ==
    \/ l.ntopics = 0
    \/ l.contract = "auction" /\ l.topics0 \notin {"AuctionStarted", "AuctionSettled"}
    \/ l.contract = "presale" /\ l.topics0 # "PresaleClaimed"
    \/ l.topics0 \in {"AuctionStarted", "AuctionSettled"} /\ l.ntopics < 4
    \/ l.topics0 = "PresaleClaimed" /\ l.ntopics < 3

C19_UndecodableLogSkipped ==
    /\ [](\A l \in AllLogs : Undecodable(l) => l.id \notin applied)
    /\ [](~auctions["h2"].present /\ "t2" \notin sold)
    /\ [][\A l \in AllLogs : (Undecodable(l) /\ AtNewLog(l)) => SkippedOrUntouched]_vars
    /\ [][(RangeSucceeded \/ CursorSaved) => ~FailedAttempt]_vars

\* one call skipped every undecodable log of the chain, applied the
\* decodable logs that came after the first of them, and committed the
\* range that holds only undecodable logs
C19_Witness ==
    /\ pc = "loop"
    /\ {EventKey(l) : l \in {m \in AllLogs : Undecodable(m)}} \subseteq seen_events
    /\ {1, 2} \subseteq applied
    /\ failures_in_row = 0
    /\ row.last_processed_block >= AUCTION_WATCHER_START_BLOCK + 300

(***************************************************************************)
(* C21.  For every 32-byte address topic the decoded address, the          *)
(* winner_address the AuctionSettled sink stores and the buyer of a        *)
(* PresaleClaimed event, is "0x" followed by the 40 lowercase hex digits   *)
(* of bytes 12..32 of the topic; the first 12 bytes have no part in it.    *)
(***************************************************************************)
\* s is "0x" and, for each of the 20 low-order bytes of the topic, the two
\* hex digits of that byte
IsAddressOf(s, topic) ==
    /\ Len(s) = 42
    /\ SubSeq(s, 1, 2) = "0x"
    /\ \A i \in 1..20 :
        \E hi \in 0..15, lo \in 0..15 :
            /\ SubSeq(s, 2 * i + 1, 2 * i + 1) = HexDigits[hi + 1]
            /\ SubSeq(s, 2 * i + 2, 2 * i + 2) = HexDigits[lo + 1]
            /\ 16 * hi + lo = topic[12 + i]

\* process_block_range is about to decode an AuctionSettled log that is
\* neither removed nor short of topics
DecodingSettled ==
    /\ AtAuctionEvent
    /\ EventKey(auction_events[idx]) \notin seen_events
    /\ auction_events[idx].topics0 = "AuctionSettled"
    /\ decode_auction_settled_log(auction_events[idx])

\* the same for a PresaleClaimed log
DecodingClaimed ==
    /\ AtPresaleEvent
    /\ EventKey(presale_events[idx]) \notin seen_events
    /\ presale_events[idx].topics0 = "PresaleClaimed"
    /\ decode_presale_claimed_log(presale_events[idx])

C21_AddressIsLow20Bytes ==
    [][/\ DecodingSettled =>
            LET l == auction_events[idx] IN
            auctions'[l.cast_hash] # auctions[l.cast_hash] =>
                /\ Len(auctions'[l.cast_hash].winner_address) = 1
                /\ IsAddressOf(auctions'[l.cast_hash].winner_address[1], l.address_topic)
       /\ DecodingClaimed =>
            IsAddressOf(buyer(presale_events[idx]), presale_events[idx].address_topic)]_vars

\* a topic with a set byte above the address has been decoded and stored,
\* and the PresaleClaimed log with the same topic was handled
C21_Witness ==
    /\ pc = "procP" /\ idx = 2
    /\ auction_events[1].address_topic[12] = 255
    /\ auction_events[1].address_topic[1] = 1
    /\ auctions["h1"].winner_address = <<"0xab000000000000000000000000000000000000ff">>
    /\ sold = {"t1"}

(***************************************************************************)
(* C20.  For every value of topics[3] of an AuctionStarted log the decoder *)
(* returns, and the creator_fid it yields (and the sink stores) is the     *)
(* topic read as a big-endian unsigned integer: never negative, never      *)
(* wrapped, never an abort.                                                *)
(***************************************************************************)
\* process_block_range is about to decode an AuctionStarted log that is
\* neither removed nor short of topics
DecodingStarted ==
    /\ AtAuctionEvent
    /\ EventKey(auction_events[idx]) \notin seen_events
    /\ auction_events[idx].topics0 = "AuctionStarted"
    /\ decode_auction_started_log(auction_events[idx])

C20_FidIsTopicValue ==
    [][DecodingStarted =>
        LET l == auction_events[idx] IN
        /\ pc' # "crashed"
        /\ auctions'[l.cast_hash] # auctions[l.cast_hash] =>
             auctions'[l.cast_hash].creator_fid =
                <<[negative |-> FALSE, magnitude |-> U256_from_be_bytes(l.topics3)]>>]_vars

(***************************************************************************)
(* C22.  An AuctionStarted event for a cast_hash that already has a row,   *)
(* the orphan row of an earlier AuctionSettled included, sets creator_fid  *)
(* and leaves present, settled and winner_address of that row, and every   *)
(* other row, as they were.                                                *)
(***************************************************************************)
C22_StartedOnExistingRowSetsFidOnly ==
    [][(DecodingStarted /\ auctions[auction_events[idx].cast_hash].present) =>
        LET l == auction_events[idx]
            old == auctions[l.cast_hash]
            new == auctions'[l.cast_hash]
        IN  /\ new.present
            /\ new.settled = old.settled
            /\ new.winner_address = old.winner_address
            /\ new.creator_fid \in {old.creator_fid, <<creator_fid(l)>>}
            /\ (pc' = "procA" /\ idx' = idx + 1) => new.creator_fid = <<creator_fid(l)>>
            /\ \A h \in CastHashes \ {l.cast_hash} : auctions'[h] = auctions[h]]_vars

\* the first attempt of a call has just applied the AuctionStarted log of h1
\* to a row that was settled before the call, and has not met the
\* AuctionSettled log yet
C22_Witness ==
    /\ pc = "procA" /\ idx > 1
    /\ auction_events[idx - 1].id = 1
    /\ seen_events = {EventKey(auction_events[j]) : j \in 1..(idx - 1)}
    /\ auctions["h1"] = [present |-> TRUE,
                         creator_fid |-> <<[negative |-> FALSE, magnitude |-> <<7>>]>>,
                         settled |-> TRUE,
                         winner_address |-> <<"0x00000000000000000000000000000000000000cc">>]

(***************************************************************************)
(* C23.  An AuctionSettled event for a cast_hash without a row leaves the  *)
(* table with the row of that cast_hash holding settled = true, the        *)
(* event's winner_address and a null creator_fid; a row, once there, stays *)
(* the row of its cast_hash through every later event.                     *)
(***************************************************************************)
C23_SettledWithoutRowInsertsOrphan ==
    /\ [][(DecodingSettled /\ ~auctions[auction_events[idx].cast_hash].present) =>
            LET l == auction_events[idx]
                orphan == [present |-> TRUE, creator_fid |-> <<>>, settled |-> TRUE,
                           winner_address |-> <<winner_address(l)>>]
            IN  /\ auctions'[l.cast_hash] \in {NoAuction, orphan}
                /\ (pc' = "procA" /\ idx' = idx + 1) => auctions'[l.cast_hash] = orphan
                /\ \A h \in CastHashes \ {l.cast_hash} : auctions'[h] = auctions[h]]_vars
    /\ [][\A h \in CastHashes : auctions[h].present => auctions'[h].present]_vars

\* the orphan row of h1: settled by log 3 while log 1 was never applied
C23_Witness ==
    /\ auctions["h1"] = [present |-> TRUE, creator_fid |-> <<>>, settled |-> TRUE,
                         winner_address |-> <<"0x00000000000000000000000000000000000000cc">>]
    /\ 3 \in applied /\ 1 \notin applied

(***************************************************************************)
(* C25.  insert_attestation, called for a triple that is already stored,   *)
(* inserts no row and can go on to the recomputation of the two counters   *)
(* and to its Ok: the duplicate alone does not make it return an error.    *)
(***************************************************************************)
\* insert_attestation is about to send its INSERT for a stored triple
InsertingDuplicate ==
    /\ handler.pc = "insert"
    /\ Attestation(handler.addr1, handler.addr2, handler.timestamp)
            \in together_attestations

C25_DuplicateInsertGoesOnToCounts ==
    InsertingDuplicate => ENABLED InsertAttestationOk

(***************************************************************************)
(* C26.  Every stored attestation row has address_1 <= address_2 in        *)
(* lowercase lexicographic order; the inserts of (A, B, t) and (B, A, t)   *)
(* leave one row, not one for each order; and check_together returns the   *)
(* same row for (A, B) and for (B, A).                                     *)
(***************************************************************************)
C26_OneOrderedRowPerPair ==
    /\ \A r \in together_attestations :
        StringLeq(to_lowercase(r.address_1), to_lowercase(r.address_2))
    /\ \A r \in together_attestations :
        r.address_1 # r.address_2 =>
            Attestation(r.address_2, r.address_1, r.attestation_timestamp)
                \notin together_attestations
    /\ \A a \in Addresses, b \in Addresses :
        \A x \in check_together(together_attestations, a, b),
           y \in check_together(together_attestations, b, a) : x = y

(***************************************************************************)
(* C27.  When insert_attestation has returned Ok, the counter row of each  *)
(* of its two addresses holds the number of attestation rows that name the *)
(* address, in whatever letter case, as address_1 or address_2; and        *)
(* get_together_count answers 0 when no counter row matches the address.   *)
(***************************************************************************)
\* the rows that name the address, compared without regard to letter case
RowsNaming(address) ==
    {r \in together_attestations :
        to_lowercase(address) \in {to_lowercase(r.address_1), to_lowercase(r.address_2)}}

\* insert_attestation returned Ok and the handler answered
InsertReturnedOk == handler.pc = "idle" /\ handler.response = "200"

MaxBatch == 2

\* an event for a sink: a log of the watcher or the arguments of insert_attestation
SinkEvents ==
    {[kind |-> "log", log |-> l] : l \in SinkLogs}
    \cup {[kind |-> "attestation", address_1 |-> a, address_2 |-> b, timestamp |-> t] :
            a \in Addresses, b \in Addresses, t \in Timestamps}

Batches == UNION {[1..n -> SinkEvents] : n \in 1..MaxBatch}

SinkState ==
    [auctions |-> auctions, sold |-> sold,
     together_attestations |-> together_attestations,
     together_counts |-> together_counts]

ApplyEvent(s, e) ==
    IF e.kind = "log"
    THEN CASE e.log.topics0 = "AuctionStarted" ->
                [s EXCEPT !.auctions = process_auction_started(@, e.log)]
           [] e.log.topics0 = "AuctionSettled" ->
                [s EXCEPT !.auctions = process_auction_settled(@, e.log)]
           [] OTHER ->
                [s EXCEPT !.sold = mark_nft_sold(@, e.log)]
    ELSE LET done == insert_attestation(s.together_attestations, s.together_counts,
                                        e.address_1, e.address_2, e.timestamp)
         IN  [s EXCEPT !.together_attestations = done.rows,
                       !.together_counts = done.counts]

RECURSIVE ApplyEvents(_, _)
ApplyEvents(s, batch) ==
    IF batch = <<>> THEN s ELSE ApplyEvents(ApplyEvent(s, Head(batch)), Tail(batch))

C24_SecondApplicationChangesNothing ==
    \A batch \in Batches :
        LET once == ApplyEvents(SinkState, batch) IN
        ApplyEvents(once, batch) = once

\* the tables after a batch of an AuctionSettled, an AuctionStarted, a
\* PresaleClaimed and two attestations of one pair in two letter cases
ReplayedBatch ==
    << [kind |-> "log", log |-> CHOOSE l \in SinkLogs : l.id = 3],
       [kind |-> "log", log |-> CHOOSE l \in SinkLogs : l.id = 1],
       [kind |-> "log", log |-> CHOOSE l \in SinkLogs : l.id = 2],
       [kind |-> "attestation", address_1 |-> Address("0B"), address_2 |-> Address("0a"),
        timestamp |-> 1],
       [kind |-> "attestation", address_1 |-> Address("0A"), address_2 |-> Address("0B"),
        timestamp |-> 1] >>

C24_Witness ==
    LET empty == [auctions |-> [h \in CastHashes |-> NoAuction], sold |-> {},
                  together_attestations |-> {},
                  together_counts |-> [a \in Addresses |-> <<>>]]
        once == ApplyEvents(empty, ReplayedBatch)
    IN  /\ SinkState = once
        /\ ApplyEvents(once, ReplayedBatch) = SinkState
        /\ auctions["h1"].settled /\ auctions["h1"].creator_fid # <<>>
        /\ sold = {"t1"}
        /\ Cardinality(together_attestations) = 2

(***************************************************************************)
(* C28.  Within one range the sink operations follow the order in which    *)
(* the chain holds the logs (block number, then log index), across the     *)
(* event types of the range: when a log is about to be applied, every      *)
(* decodable log of the range that the chain holds before it has been      *)
(* passed by the loops.                                                    *)
(***************************************************************************)
\* the place of a log on the chain
Position(l) == CHOOSE i \in 1..Len(ChainLogs) : ChainLogs[i] = l

\* a for loop of this pass over the range has gone past the log
Passed(m) ==
    \/ /\ pc = "procA"
       /\ \E j \in 1..(idx - 1) : j <= Len(auction_events) /\ auction_events[j] = m
    \/ /\ pc = "procP"
       /\ \/ \E j \in 1..Len(auction_events) : auction_events[j] = m
          \/ \E j \in 1..(idx - 1) : j <= Len(presale_events) /\ presale_events[j] = m

\* the decodable logs of the range in work that the chain holds before l
EarlierInRange(l) ==
    {m \in AllLogs : /\ Persistable(m)
                     /\ from_block <= m.block /\ m.block <= to_block
                     /\ Position(m) < Position(l)}

C28_SinksInChainOrderAcrossTypes ==
    \A l \in AllLogs :
        (AtNewLog(l) /\ Persistable(l)) => \A m \in EarlierInRange(l) : Passed(m)

\* Amended: the order of the chain is kept within the auction logs and
\* within the presale logs; every presale log is applied after all the
\* auction logs of the range, also after those of later blocks.
C28_SinksInFetchOrderAuctionsFirst ==
    /\ \A l \in AllLogs :
        (AtNewLog(l) /\ Persistable(l)) =>
            \A m \in EarlierInRange(l) :
                (m.contract = l.contract \/ m.contract = "auction") => Passed(m)
    /\ \A l \in AllLogs :
        (AtNewLog(l) /\ l.contract = "presale") =>
            \A m \in AllLogs :
                (m.contract = "auction" /\ from_block <= m.block /\ m.block <= to_block)
                    => Passed(m)

\* the first pass of a call over a range has applied the AuctionSettled log
\* of a later block and then the PresaleClaimed log of an earlier one
C28_Witness ==
    /\ pc = "procP" /\ idx > 1
    /\ presale_events[idx - 1].id = 2
    /\ \E j \in 1..Len(auction_events) : auction_events[j].id = 3
    /\ seen_events = {EventKey(auction_events[j]) : j \in 1..Len(auction_events)}
                        \cup {EventKey(presale_events[j]) : j \in 1..(idx - 1)}
    /\ {2, 3} \subseteq applied
    /\ auctions["h1"].settled /\ sold = {"t1"}

(***************************************************************************)
(* C29.  The watcher with seen_events and the watcher without the dedup    *)
(* check end in the same tables and cursor: whenever the check skips a     *)
(* decodable log, the log has been applied, and its sink, run in place of  *)
(* the skip, would leave every table as it is.                             *)
(***************************************************************************)
\* the for loop of process_block_range is at a log whose key is in seen_events
AtSeenLog(l) ==
    /\ EventKey(l) \in seen_events
    /\ \/ AtAuctionEvent /\ l = auction_events[idx]
       \/ AtPresaleEvent /\ l = presale_events[idx]

\* the tables the sink of the log leaves
AfterSink(l) ==
    IF l.contract = "presale" THEN <<auctions, mark_nft_sold(sold, l)>>
    ELSE IF l.topics0 = "AuctionStarted" THEN <<process_auction_started(auctions, l), sold>>
    ELSE <<process_auction_settled(auctions, l), sold>>

C29_DedupSkipsOnlyWhatIsApplied ==
    \A l \in AllLogs :
        (AtSeenLog(l) /\ Persistable(l)) =>
            /\ l.id \in applied
            /\ AfterSink(l) = <<auctions, sold>>

(***************************************************************************)
(* C30.  The cast hash of a token id is "0x" and the 40 lowercase hex      *)
(* digits of the low-order 160 bits of the token id; for a token id below  *)
(* 2^160, cast_hash_to_token_id gives the token id back.                   *)
(***************************************************************************)
Below2To160(t) == \A i \in 1..12 : t[i] = 0

C30_CastHashRoundTrip ==
    /\ conversion.pc \in {"hashed", "recovered"} =>
        IsAddressOf(conversion.cast_hash, conversion.expected[1])
    /\ (conversion.pc = "recovered" /\ Below2To160(conversion.expected[1])) =>
        conversion.recovered = conversion.expected

\* the largest token id below 2^160 that ends in 0xff, and its way back
C30_Witness ==
    /\ conversion.pc = "recovered"
    /\ conversion.token_id = "1455792646560079078679451688838485039110401556735"
    /\ conversion.cast_hash = "0xff000000000000000000000000000000000000ff"
    /\ conversion.recovered = conversion.expected


(***************************************************************************)
(* C31.  is_valid_jsonrpc_request accepts an object exactly when it has    *)
(* the keys jsonrpc, method and id, with jsonrpc the string "2.0" and      *)
(* method a string; an array exactly when it is not empty and each of its  *)
(* elements is accepted; nothing else.  The proxy forwards the body it     *)
(* validated exactly when the body is accepted.                            *)
(***************************************************************************)
RECURSIVE Accepted(_)
Accepted(b) ==
    \/ /\ b.kind = "object"
       /\ {"jsonrpc", "method", "id"} \subseteq {m[1] : m \in b.members}
       /\ <<"jsonrpc", JsonString("2.0")>> \in b.members
       /\ \E m \in b.members : m[1] = "method" /\ m[2].kind = "string"
    \/ /\ b.kind = "array"
       /\ Len(b.items) > 0
       /\ \A i \in 1..Len(b.items) : Accepted(b.items[i])

C31_ValidExactlyWhenAccepted ==
    proxy.pc \in {"answered", "forwarding"} =>
        /\ proxy.forwarded <=> Accepted(proxy.body)
        /\ ~proxy.forwarded => proxy.status = 400

\* a batch that holds a request and a batch of one request goes upstream
C31_Witness ==
    /\ proxy.pc = "forwarding"
    /\ proxy.body = JsonArray(<<ValidRequest, JsonArray(<<ValidRequest>>)>>)

(***************************************************************************)
(* C34.  For each key of each limiter, the calls of can_make_request that  *)
(* returned true number at most max_requests_per_minute in any window of   *)
(* 60 seconds (a window holds the instants after its start, up to its      *)
(* end), and the limiter holds nothing but calls that returned true, and   *)
(* all of those of the last 60 seconds: a call that returned false left    *)
(* nothing that a later call counts.                                       *)
(***************************************************************************)
InWindow(history, end, window) ==
    {j \in 1..Len(history) : history[j] > end - window /\ history[j] <= end}

LimiterKept(requests, history, max, window) ==
    \A key \in DOMAIN requests :
        LET kept == requests[key]
            all == history[key]
        IN  /\ \A t \in {all[j] : j \in 1..Len(all)} :
                Cardinality(InWindow(all, t, window)) <= max
            /\ Len(kept) <= Len(all)
            /\ kept = SubSeq(all, Len(all) - Len(kept) + 1, Len(all))
            /\ Cardinality(InWindow(all, now, window)) <= Len(kept)

C34_AdmittedWithinLimitDeniedUnrecorded ==
    /\ LimiterKept(rpc_requests, admitted.rpc, 300, 60)
    /\ LimiterKept(alchemy_requests, admitted.alchemy, 10, 60)

\* an owner used up the limit a tick ago: the calls of this instant are denied
C34_Witness ==
    /\ now = 60
    /\ alchemy_requests # NoLimiter
    /\ Len(admitted.alchemy["0x0a"]) = 10
    /\ admitted.alchemy["0x0a"][1] = 30
    /\ alchemy_requests["0x0a"] = admitted.alchemy["0x0a"]

(***************************************************************************)
(* C35.  proxy_rpc sends a request upstream only after the limiter let it  *)
(* through, with no network parameter or one of base, ethereum, polygon,   *)
(* and with an accepted body; a request the limiter denies is answered     *)
(* 429, any other request that is turned away is answered 400, and neither *)
(* goes upstream.                                                          *)
(***************************************************************************)
\* proxy_rpc takes up a request
RequestStarts ==
    /\ proxy.pc \in {"idle", "answered"}
    /\ proxy'.pc \in {"validate", "answered"}
    /\ rpc_requests' # rpc_requests \/ proxy' # proxy

LimitReached(client_ip) ==
    Cardinality(InWindow(admitted.rpc[client_ip], now, 60)) >= 300

C35_ForwardsOnlyCheckedRequests ==
    [][/\ RequestStarts =>
            /\ proxy'.status = 429 <=> LimitReached(proxy'.client_ip)
            /\ proxy'.pc = "validate" =>
                proxy'.network \in {<<>>, <<"base">>, <<"ethereum">>, <<"polygon">>}
            /\ proxy'.pc = "answered" => proxy'.status \in {429, 400}
            /\ ~proxy'.forwarded
       /\ (proxy'.forwarded /\ ~proxy.forwarded) =>
            /\ proxy.pc = "validate"
            /\ Accepted(proxy.body)
            /\ proxy'.body = proxy.body /\ proxy'.network = proxy.network
       /\ (proxy'.pc = "answered" /\ proxy.pc = "validate") =>
            proxy'.status = 400 /\ ~proxy'.forwarded]_vars

\* a well-formed request for the default network is denied by the limiter
C35_Witness ==
    /\ proxy.pc = "answered"
    /\ proxy.status = 429
    /\ proxy.body = ValidRequest
    /\ proxy.network = <<>>
    /\ ~proxy.forwarded

(***************************************************************************)
(* C32.  When the auction-log fetch or the presale-log fetch of a range    *)
(* fails, no sink operation of the range has run and no key has been put   *)
(* into seen_events: from the planning of the range to the failure, the    *)
(* business tables, the cursor row and the dedup set stay as they were.    *)
(***************************************************************************)
AtFetch == pc \in {"fetchA", "fetchP"}

C32_FailedFetchLeavesNoTrace ==
    [][/\ (pc' = "fetchA" /\ pc # "fetchA") =>
            /\ pc = "loop"
            /\ db' = db /\ seen_events' = seen_events
       /\ (AtFetch /\ pc' # "restarted") =>
            /\ db' = db /\ seen_events' = seen_events
       /\ (AtFetch /\ FailedAttempt) =>
            /\ pc' \in {"loop", "sleep"}
            /\ db' = db /\ seen_events' = seen_events]_vars

\* the first range of a call, which holds logs, failed at a fetch: nothing
\* is applied, no key is recorded, the cursor row is the one the call created
C32_Witness ==
    /\ pc \in {"loop", "sleep"}
    /\ failures_in_row = 1
    /\ iter_count <= 1
    /\ from_block = AUCTION_WATCHER_START_BLOCK
    /\ latest_block >= AUCTION_WATCHER_START_BLOCK + 10
    /\ seen_events = {}
    /\ applied = {}
    /\ row = Row(AUCTION_WATCHER_START_BLOCK - 1, INITIAL_CHUNK_SIZE)

(***************************************************************************)
(* C33.  The persisted last_processed_block is start_block - 1 or at most  *)
(* the largest head the RPC has returned so far: the row is written only   *)
(* when it is created, with start_block - 1, and when a range is           *)
(* committed, with a block at or below a head that eth_blockNumber         *)
(* answered in this call; a head the process holds is an answer of the     *)
(* RPC, which never answers above the chain.                               *)
(***************************************************************************)
C33_CursorAtMostAHeadReturned ==
    /\ [](row.present =>
            \/ row.last_processed_block = AUCTION_WATCHER_START_BLOCK - 1
            \/ row.last_processed_block <= chainHead)
    /\ [](/\ latest_block \in {0} \cup BlockNumberAnswers
          /\ current_latest \in {0} \cup BlockNumberAnswers)
    /\ [][/\ latest_block' # latest_block =>
               \/ latest_block' = 0
               \/ pc = "head" /\ latest_block' \in BlockNumberAnswers
          /\ current_latest' # current_latest =>
               \/ current_latest' = 0
               \/ pc = "loop" /\ current_latest' \in BlockNumberAnswers \cup {latest_block}
          /\ row' # row =>
               \/ /\ ~row.present
                  /\ row'.last_processed_block = AUCTION_WATCHER_START_BLOCK - 1
               \/ /\ pc = "save"
                  /\ current_latest \in BlockNumberAnswers
                  /\ row'.last_processed_block <= current_latest]_vars

\* a later call is answered by a node that lags behind the cursor
C33_Witness ==
    /\ row.present
    /\ pc = "loop"
    /\ latest_block < row.last_processed_block
    /\ row.last_processed_block <= chainHead

(***************************************************************************)
(* C36: each mutual pair of pending connections is acted on at most once   *)
(* by the connection checker.  Once process_connection_match has returned  *)
(* Ok for a match whose optimistic connection it created, neither pending  *)
(* row of the match is in the table, and no two optimistic connections     *)
(* were created, nor two transactions submitted, for the same two pending  *)
(* rows.                                                                   *)
(***************************************************************************)
ReturnedOk(entry) == entry.result \in {"sent", "failed"}
PendingIdsLeft == {p.id : p \in pending_connections}

\* after Ok, neither matched pending row remains
MatchedRowsGone ==
    \A i \in DOMAIN submitted :
        ReturnedOk(submitted[i]) =>
           /\ submitted[i].pending_1 \notin PendingIdsLeft
           /\ submitted[i].pending_2 \notin PendingIdsLeft

\* no second optimistic connection, no second transaction for the same rows
NoSecondConnectionForAMatch ==
    \A i \in DOMAIN submitted : \A j \in DOMAIN submitted :
        /\ submitted[i].pending_1 = submitted[j].pending_1
        /\ submitted[i].pending_2 = submitted[j].pending_2
        => i = j

C36_MatchActedOnAtMostOnce == MatchedRowsGone /\ NoSecondConnectionForAMatch

(***************************************************************************)
(* C37: with a single connection checker running, no pair of users has     *)
(* more than 50 unprocessed optimistic connections.  The checker creates   *)
(* an optimistic connection only while the pair has fewer than 50, and it  *)
(* deletes pending connections and submits a transaction only for a match  *)
(* whose count it read as less than 50.                                    *)
(***************************************************************************)
Unprocessed(user_id_1, user_id_2) ==
    count_unprocessed_optimistic_connections(optimistic_connections,
                                             user_id_1, user_id_2)

C37_AtMostFiftyUnprocessed ==
    /\ \A user_id_1 \in Users : \A user_id_2 \in Users :
          Unprocessed(user_id_1, user_id_2) <= TooManyUnprocessed
    /\ checker.pc = "create" =>
          Unprocessed(checker.current.pending_1.from_user_id,
                      checker.current.pending_1.to_user_id) < TooManyUnprocessed
    /\ checker.pc \in {"create", "delete_1", "delete_2", "submit"} =>
          checker.unprocessed_count < TooManyUnprocessed

\* the checker has read a count of 50 and gone on to wait for its next tick,
\* the two pending rows of the match still there
C37_Witness ==
    /\ Unprocessed(1, 2) = TooManyUnprocessed
    /\ checker.unprocessed_count = TooManyUnprocessed
    /\ checker.pc = "idle"
    /\ find_pending_connection_matches(pending_connections, now) # {}
    /\ Len(optimistic_connections) = TooManyUnprocessed

(***************************************************************************)
(* C38: an optimistic connection whose attestation transaction failed to   *)
(* be sent does not remain unprocessed forever: in time it is removed or   *)
(* is no longer reported as unprocessed.                                   *)
(***************************************************************************)
\* users.rs lines 266-280: the ids get_unprocessed_optimistic_connections reports
ReportedUnprocessed ==
    {optimistic_connections[i].id : i \in
        {j \in DOMAIN optimistic_connections :
            optimistic_connections[j].processed = FALSE}}

SendFailed(id) ==
    \E i \in DOMAIN submitted :
        submitted[i].optimistic = id /\ submitted[i].result = "failed"

\* the optimistic connections created in this run of the checker
C38_FailedSendExpires ==
    \A id \in (PreloadedOptimistic + 1)..TooManyUnprocessed :
        (SendFailed(id) /\ id \in ReportedUnprocessed)
            ~> (id \notin ReportedUnprocessed)

\* what the code does instead: an unprocessed optimistic connection stays so
UnprocessedStays ==
    [][ReportedUnprocessed \subseteq ReportedUnprocessed']_vars

(***************************************************************************)
(* C39: at most one unexpired pending connection exists per ordered pair   *)
(* (from_user_id, to_user_id) and none from a user to itself; a request    *)
(* naming an unknown user is answered 404 and a request of a known user    *)
(* to itself 400 (500 when the database fails), also while two create      *)
(* requests for the same pair are handled at once.                         *)
(***************************************************************************)
OnePendingPerPair ==
    \A p \in pending_connections : \A q \in pending_connections :
        /\ p.from_user_id = q.from_user_id
        /\ p.to_user_id = q.to_user_id
        /\ p.expires_at > now
        /\ q.expires_at > now
        => p = q

NoPendingToSelf ==
    \A p \in pending_connections : p.from_user_id # p.to_user_id

UnknownUser(request) ==
    ~get_user_by_id(request.from_user_id) \/ ~get_user_by_id(request.to_user_id)

\* the answers of the requests that have been answered
RefusedAsClaimed ==
    \A h \in Handlers :
        (creators[h].pc = "idle" /\ creators[h].status # 0) =>
            /\ UnknownUser(creators[h]) => creators[h].status \in {404, 500}
            /\ creators[h].status = 404 => UnknownUser(creators[h])
            /\ (~UnknownUser(creators[h])
                    /\ creators[h].from_user_id = creators[h].to_user_id)
                  => creators[h].status \in {400, 500}
            /\ creators[h].status = 400 =>
                  /\ ~UnknownUser(creators[h])
                  /\ creators[h].from_user_id = creators[h].to_user_id

\* a request is answered 409 when its check finds an unexpired pending
\* connection, and an answer other than 200 comes with no insert
RefusalsInsertNothing ==
    [][\A h \in Handlers :
          (creators[h].pc # "idle" /\ creators'[h].pc = "idle") =>
              /\ creators'[h].status # 200 =>
                    pending_connections' = pending_connections
              /\ creators[h].pc = "check" =>
                    (creators'[h].status = 409 <=>
                        get_pending_connection(pending_connections,
                                               creators[h].from_user_id,
                                               creators[h].to_user_id, now) # {})
                    \/ creators'[h].status = 500]_vars

C39_OneUnexpiredPendingPerPair ==
    /\ OnePendingPerPair
    /\ NoPendingToSelf
    /\ RefusedAsClaimed

(***************************************************************************)
(* C40: submit_together_transaction calls send_transaction at most 3       *)
(* times and never again after a send succeeded; it returns Ok with the    *)
(* hash of the transaction sent exactly when a send succeeded, whatever    *)
(* the wait for the receipt yields, and Err otherwise.                     *)
(***************************************************************************)
Sent(i) == tx.sends[i].outcome = "sent"

C40_OkExactlyWhenSent ==
    /\ Len(tx.sends) <= 3
    /\ \A i \in DOMAIN tx.sends : Sent(i) => i = Len(tx.sends)
    /\ tx.pc = "done" =>
          /\ tx.result.kind \in {"Ok", "Err"}
          /\ tx.result.kind = "Ok" <=> \E i \in DOMAIN tx.sends : Sent(i)
          /\ tx.result.kind = "Ok" =>
                tx.result.hash = tx.sends[Len(tx.sends)].hash
    /\ tx.pc # "done" => tx.result = NoResult

\* the third send is accepted after two nonce conflicts, and the wait for
\* its receipt times out
C40_Witness ==
    /\ tx.pc = "done"
    /\ Len(tx.sends) = 3
    /\ tx.sends[1].outcome = "nonce conflict"
    /\ tx.sends[2].outcome = "nonce conflict"
    /\ tx.receipt = "timeout"
    /\ tx.result = Ok("0xb2")
====
